---- MODULE Spec2Model ----
(***************************************************************************)
(* Model of the shell-hook dispatcher: ShellHookBridge (bridge.py),        *)
(* HookExecutor (executor.py) and DataTranslator (translator.py).          *)
(*                                                                         *)
(* Text is a sequence of tokens (a token is a character or a word); the    *)
(* whitespace tokens are WS.  A Python dict is a function whose DOMAIN is  *)
(* the set of keys present.  A JSON value is a record tagged by its type.  *)
(***************************************************************************)
EXTENDS Integers, Sequences, FiniteSets, TLC

(***************************************************************************)
(* Bounds                                                                  *)
(***************************************************************************)
MaxStderrLen == 2
MaxDispatches == 1
MaxSkillOps == 3
MaxEnvTokens == 4
MaxEnvLines == 2
MaxExecutes == 2
MaxChildWrites == 1
MaxEventDispatches == 2
MaxHookWrites == 2
MaxPatternLen == 3
MaxTargetLen == 2

(***************************************************************************)
(* Text                                                                    *)
(***************************************************************************)
WS == {" ", "\n"}

RECURSIVE lstrip(_)
lstrip(s) == IF s # <<>> /\ Head(s) \in WS THEN lstrip(Tail(s)) ELSE s

RECURSIVE rstrip(_)
rstrip(s) ==
    IF s # <<>> /\ s[Len(s)] \in WS THEN rstrip(SubSeq(s, 1, Len(s) - 1)) ELSE s

\* str.strip()
strip(s) == rstrip(lstrip(s))

RECURSIVE SeqsUpTo(_, _)
SeqsUpTo(S, n) ==
    IF n = 0 THEN {<<>>}
    ELSE LET shorter == SeqsUpTo(S, n - 1)
         IN  shorter \cup {Append(s, c) : s \in shorter, c \in S}

(***************************************************************************)
(* JSON values                                                             *)
(***************************************************************************)
JStr(s) == [t |-> "str", v |-> s]
JNum(n) == [t |-> "num", v |-> n]
JBool(b) == [t |-> "bool", v |-> b]
JNull == [t |-> "null"]
JArr(xs) == [t |-> "arr", v |-> xs]
JObj(f) == [t |-> "obj", v |-> f]

EmptyDict == [k \in {} |-> JNull]

\* dict.get(key, default)
get(d, key, default) == IF key \in DOMAIN d THEN d[key] ELSE default

\* Python None
None == [none |-> TRUE]
IsNone(x) == "none" \in DOMAIN x

\* Exceptions travel as values: a raised exception is a dict with one key, exc.
Raise(name) == [exc |-> name]
IsException(r) == "exc" \in DOMAIN r

(***************************************************************************)
(* DataTranslator.from_claude_response                                     *)
(***************************************************************************)
DEFAULT_REASON == JStr(<<"Hook", " ", "blocked", " ", "operation">>)
BLOCK == JStr(<<"block">>)
APPROVE == JStr(<<"approve">>)

\* "systemMessage" in response  =>  result["user_message"] = response[...]
WithSystemMessage(result, response) ==
    IF "systemMessage" \in DOMAIN response
    THEN result @@ [user_message |-> response["systemMessage"]]
    ELSE result

\* The precedence mutated: newContent is looked at before contextInjection.
ParseObjectModifyFirst(response) ==
    IF get(response, "decision", APPROVE) = BLOCK
    THEN WithSystemMessage(
            [action |-> "deny", reason |-> get(response, "reason", DEFAULT_REASON)],
            response)
    ELSE IF "newContent" \in DOMAIN response
    THEN WithSystemMessage(
            [action |-> "modify",
             data |-> [modified_content |-> response["newContent"]]],
            response)
    ELSE IF "contextInjection" \in DOMAIN response
    THEN WithSystemMessage(
            [action |-> "inject_context",
             context_injection |-> response["contextInjection"]],
            response)
    ELSE WithSystemMessage([action |-> "continue"], response)

\* _parse_json_response on a dict
ParseObject(response) ==
    IF get(response, "decision", APPROVE) = BLOCK
    THEN WithSystemMessage(
            [action |-> "deny", reason |-> get(response, "reason", DEFAULT_REASON)],
            response)
    ELSE IF "contextInjection" \in DOMAIN response
    THEN WithSystemMessage(
            [action |-> "inject_context",
             context_injection |-> response["contextInjection"]],
            response)
    ELSE IF "newContent" \in DOMAIN response
    THEN WithSystemMessage(
            [action |-> "modify",
             data |-> [modified_content |-> response["newContent"]]],
            response)
    ELSE WithSystemMessage([action |-> "continue"], response)

\* _parse_json_response(response): response is whatever json.loads returned;
\* response.get exists only on a dict, any other value raises AttributeError.
_parse_json_response(response) ==
    IF response.t = "obj" THEN ParseObject(response.v)
    ELSE Raise("AttributeError")

\* The standard output of a process is one of
\*   [kind |-> "ws", text |-> s]       s made of whitespace only (or empty)
\*   [kind |-> "text"]                 text that is not a JSON document
\*   [kind |-> "json", value |-> j]    the JSON document that denotes j
\* stdout.strip() is falsy exactly for the first kind.
stdout_blank(out) == out.kind = "ws" /\ strip(out.text) = <<>>

\* json.loads(stdout): the value, or JSONDecodeError
json_loads(out) ==
    IF out.kind = "json" THEN [ok |-> TRUE, value |-> out.value]
    ELSE [ok |-> FALSE]

\* The exit-code test mutated: standard output is parsed first and exit code 2
\* only decides when it carries no decision object.
from_claude_response_stdout_first(code, out, err) ==
    IF ~stdout_blank(out) /\ json_loads(out).ok
    THEN _parse_json_response(json_loads(out).value)
    ELSE IF code = 2
    THEN [action |-> "deny",
          reason |-> IF strip(err) # <<>> THEN JStr(strip(err)) ELSE DEFAULT_REASON]
    ELSE [action |-> "continue"]

from_claude_response(code, out, err) ==
    IF code = 2
    THEN [action |-> "deny",
          reason |-> IF strip(err) # <<>> THEN JStr(strip(err)) ELSE DEFAULT_REASON]
    ELSE IF ~stdout_blank(out) /\ json_loads(out).ok
    THEN _parse_json_response(json_loads(out).value)
    ELSE [action |-> "continue"]

(***************************************************************************)
(* HookMatcher and MatcherGroup                                            *)
(***************************************************************************)
\* str.lower() on the names used as patterns and targets
lower(s) ==
    CASE s = "Bash" -> "bash"
      [] s = "BASH" -> "bash"
      [] s = "Edit" -> "edit"
      [] OTHER -> s

lower_text(s) == [i \in DOMAIN s |-> lower(s[i])]

\* A pattern and a target are texts: sequences of symbols.  A symbol is one
\* of the operators of the regular expressions below or a letter, which
\* stands for itself; "Bash" and "bash" are the same letter in two cases.
Quantifiers == {"*", "+"}

\* the groups open after the first n symbols of p
RECURSIVE open_groups(_, _)
open_groups(p, n) ==
    IF n = 0 THEN 0
    ELSE open_groups(p, n - 1)
         + (IF p[n] = "(" THEN 1 ELSE IF p[n] = ")" THEN -1 ELSE 0)

\* re.compile(pattern, re.IGNORECASE) returns (does not raise re.error):
\* the parentheses balance ("missing )", "unbalanced parenthesis"), and a
\* quantifier follows something it can repeat ("nothing to repeat",
\* "multiple repeat")
re_compiles(p) ==
    /\ \A n \in 0..Len(p) : open_groups(p, n) >= 0
    /\ open_groups(p, Len(p)) = 0
    /\ \A i \in DOMAIN p :
          p[i] \in Quantifiers => i > 1 /\ p[i - 1] \notin {"*", "+", "|", "("}

\* the alternatives of p: the stretches between the bars outside its groups
branches(p) ==
    LET cuts == {0, Len(p) + 1}
                \cup {i \in DOMAIN p : p[i] = "|" /\ open_groups(p, i) = 0}
    IN  { SubSeq(p, a + 1, b - 1) :
            <<a, b>> \in { c \in cuts \X cuts :
                              /\ c[1] < c[2]
                              /\ \A d \in cuts : ~(c[1] < d /\ d < c[2]) } }

\* the last symbol of the first atom of b: of the group, when b starts one
atom_end(b) ==
    IF b[1] = "("
    THEN CHOOSE j \in DOMAIN b :
            /\ open_groups(b, j) = 0
            /\ \A k \in 1..(j - 1) : open_groups(b, k) > 0
    ELSE 1

\* The matcher of the compiled pattern.  ends_regex(p, t, S): the positions
\* of t at which a match of p can end when it starts at a position of S.
RECURSIVE ends_regex(_, _, _)
RECURSIVE ends_branch(_, _, _)
RECURSIVE ends_atom(_, _, _)
RECURSIVE ends_repeated(_, _, _, _)

ends_regex(p, t, S) == UNION { ends_branch(b, t, S) : b \in branches(p) }

ends_atom(atom, t, S) ==
    IF atom[1] = "("
    THEN ends_regex(SubSeq(atom, 2, Len(atom) - 1), t, S)
    ELSE { i + 1 : i \in { x \in S :
                /\ x <= Len(t)
                /\ IF atom[1] = "." THEN t[x] # "\n"
                   ELSE lower(t[x]) = lower(atom[1]) } }

\* zero or more matches of the atom, n more at most
ends_repeated(atom, t, S, n) ==
    IF n = 0 THEN S
    ELSE ends_repeated(atom, t, S \cup ends_atom(atom, t, S), n - 1)

ends_branch(b, t, S) ==
    IF b = <<>> THEN S
    ELSE LET k == atom_end(b)
             atom == SubSeq(b, 1, k)
             quantifier == IF k < Len(b) /\ b[k + 1] \in Quantifiers
                           THEN b[k + 1] ELSE ""
             rest == SubSeq(b, IF quantifier = "" THEN k + 1 ELSE k + 2, Len(b))
             after == IF quantifier = "" THEN ends_atom(atom, t, S)
                      ELSE IF quantifier = "*"
                      THEN ends_repeated(atom, t, S, Len(t) + 1)
                      ELSE ends_repeated(atom, t, ends_atom(atom, t, S), Len(t) + 1)
         IN  ends_branch(rest, t, after)

\* the pattern matched as a prefix of the target (re.match for re.fullmatch)
match_prefix(p, t) == ends_regex(p, t, {1}) # {}

\* bool(compiled.fullmatch(tool_name))
fullmatch(p, t) == (Len(t) + 1) \in ends_regex(p, t, {1})

\* HookMatcher._compile_pattern: None for the match-all patterns and for a
\* pattern that does not compile
_compile_pattern(p) ==
    IF p = <<>> \/ p = <<"*">> THEN None
    ELSE IF re_compiles(p) THEN [regex |-> p]
    ELSE None

\* HookMatcher.__init__
HookMatcher(p) == [pattern |-> p, _compiled_regex |-> _compile_pattern(p)]

\* HookMatcher.matches
HookMatcher_matches(m, target) ==
    IF IsNone(m._compiled_regex) /\ (m.pattern = <<>> \/ m.pattern = <<"*">>)
    THEN TRUE
    ELSE IF ~IsNone(m._compiled_regex)
    THEN fullmatch(m._compiled_regex.regex, target)
    ELSE lower_text(target) = lower_text(m.pattern)

\* the text of a name of the configurations and of the event data
spelling(name) ==
    CASE name = "" -> <<>>
      [] name = "Edit|Write" -> <<"Edit", "|", "Write">>
      [] OTHER -> <<name>>

\* HookMatcher(pattern).matches(tool_name)
matches(pattern, tool_name) ==
    HookMatcher_matches(HookMatcher(spelling(pattern)), spelling(tool_name))

\* MatcherGroup mutated: the entries without hooks are kept
MatcherGroup_keeps_all(matchers_config) == matchers_config

\* MatcherGroup(matchers_config): the entries that have hooks, in order
MatcherGroup(matchers_config) ==
    SelectSeq(matchers_config, LAMBDA mc : get(mc, "hooks", <<>>) # <<>>)

\* MatcherGroup.get_matching_groups(target): every matching entry, in order,
\* with its full configuration
get_matching_groups(group, target) ==
    SelectSeq(group, LAMBDA mc : matches(get(mc, "matcher", "*"), target))

(***************************************************************************)
(* Insertion-ordered dict (the two skill tables are iterated in order)     *)
(***************************************************************************)
DictKeys(d) == {d[i].k : i \in DOMAIN d}

DictSet(d, key, val) ==
    IF key \in DictKeys(d)
    THEN [i \in DOMAIN d |-> IF d[i].k = key THEN [k |-> key, v |-> val] ELSE d[i]]
    ELSE Append(d, [k |-> key, v |-> val])

\* del d[key], for a key that is there (KeyError otherwise)
DictDel(d, key) == SelectSeq(d, LAMBDA e : e.k # key)

(***************************************************************************)
(* Configurations and inputs                                               *)
(***************************************************************************)
Cmd(c) == [type |-> "command", command |-> <<c>>]
CmdT(c, t) == [type |-> "command", command |-> <<c>>, timeout |-> t]
Prompt(p) == [type |-> "prompt", prompt |-> <<p>>]

\* hook_configs["hooks"] as load_all_configs returns it
BaseConfigs ==
    << [PreToolUse |->
        << [matcher |-> "*", hooks |-> <<Cmd("first.sh"), Cmd("second.sh")>>],
           [matcher |-> "Bash", parallel |-> TRUE,
            hooks |-> <<CmdT("a.sh", 5), Prompt("Is it safe?")>>],
           [matcher |-> "Edit", hooks |-> <<>>] >>,
       SessionStart |->
        << [matcher |-> "resume", hooks |-> <<Cmd("resume.sh")>>] >>],
       [PreToolUse |->
        << [matcher |-> "bash", parallel |-> TRUE,
            hooks |-> <<Cmd("a.sh"), [command |-> <<"b.sh">>]>>],
           [matcher |-> "", parallel |-> FALSE,
            hooks |-> <<Prompt("Done?"), [type |-> "http"], Cmd("c.sh")>>] >>] >>

\* the bridges of the model: (enabled, coordinator, configuration)
Bridges ==
    { <<TRUE, "coordinator", BaseConfigs[1]>>, <<TRUE, "None", BaseConfigs[2]>>,
      <<FALSE, "None", BaseConfigs[1]>> }

\* the hooks configurations a skill:loaded event carries: relative commands
\* with ./ and with ../, one hook without a type of its own
CheckHooks ==
    [PreToolUse |->
        << [matcher |-> "Bash",
            hooks |-> <<[type |-> "command", command |-> <<"./", "check.sh">>]>>] >>]
SharedHooks ==
    [PreToolUse |->
        << [matcher |-> "*",
            hooks |-> <<[type |-> "command", command |-> <<"../", "shared.sh">>],
                        [command |-> <<"./", "lint.sh">>]>>] >>]
SkillConfigs == {CheckHooks, SharedHooks}

SkillNames == {"s1", "s2"}
SkillDirs == { <<"/", "skills", "s1">> }

\* skill:loaded and skill:unloaded event data
SkillLoadedData ==
    { [skill_name |-> "s1", hooks |-> h, skill_directory |-> d] :
             h \in SkillConfigs, d \in SkillDirs }
    \cup { [skill_name |-> "s2", hooks |-> h] : h \in SkillConfigs }
    \cup { [skill_name |-> "s1"], [skill_name |-> "s1", hooks |-> EmptyDict] }
    \cup { [hooks |-> h] : h \in SkillConfigs }
SkillUnloadedData == { [skill_name |-> n] : n \in SkillNames } \cup { EmptyDict }

\* the one skill that comes and goes while the base configuration is exercised
BashSkillLoaded ==
    { [skill_name |-> "s1", hooks |-> CheckHooks, skill_directory |-> d] :
             d \in SkillDirs }
BashSkillUnloaded == { [skill_name |-> "s1"] }

\* the events and event data of a dispatch
DispatchEvents == {"tool:pre", "session:start", "bogus:event"}
DispatchData ==
    { [name |-> "Bash", session_id |-> "sess-1"],
      [tool_name |-> "Edit"],
      [trigger |-> "resume", session_id |-> "sess-2"] }

(***************************************************************************)
(* State                                                                   *)
(***************************************************************************)
VARIABLES
    \* ShellHookBridge
    enabled, coordinator, matcher_groups, skill_scoped_hooks,
    skill_matcher_groups, executor,
    \* one _execute_hooks call
    pc, amplifier_event, data, matching_groups, claude_data, gi, hi, tasks,
    result,
    \* history of the call: the handlers invoked, in order, and what each did
    sources, invoked, outcomes, ndispatch, nskillops,
    \* history of the call: the commands given to executor.execute, in order
    executed,
    \* history of the skill notifications: the owners registered, in the order
    \* of their registration, and the notification handled last
    registered, skill_event,
    \* one from_claude_response call
    exit_code, stdout, stderr, result_fields,
    \* the world of the executor: os.environ, the files that exist, the number
    \* of temporary files made, the execute calls under way
    environ, files, ntemp, calls,
    \* history of the executor: the environment prepared last and what it was
    \* prepared from, the operation done last and what it started from
    prepared, last_op, nexec,
    \* the event the host emitted last and the mapping it passed, as the
    \* handler leaves it
    emitted, payload,
    \* one HookMatcher(pattern).matches(tool_name) call
    matcher_pattern, matcher_target, matched,
    \* one _parse_prompt_response(response_text) call
    response_text, parsed

bridge_vars == <<enabled, coordinator, matcher_groups, skill_scoped_hooks,
                 skill_matcher_groups, executor>>
call_vars == <<pc, amplifier_event, data, matching_groups, claude_data, gi, hi,
               tasks, result>>
skill_history == <<registered, skill_event>>
history_vars == <<sources, invoked, outcomes, ndispatch, nskillops, executed,
                  skill_history>>
translator_vars == <<exit_code, stdout, stderr, result_fields>>
world_vars == <<environ, files, ntemp, calls>>
executor_history == <<prepared, last_op, nexec>>
host_vars == <<emitted, payload>>
matcher_vars == <<matcher_pattern, matcher_target, matched>>
prompt_vars == <<response_text, parsed>>
vars == <<bridge_vars, call_vars, history_vars, translator_vars, world_vars,
          executor_history, host_vars, matcher_vars, prompt_vars>>

(***************************************************************************)
(* ShellHookBridge: construction                                           *)
(***************************************************************************)
CONTINUE == [action |-> "continue"]

CLAUDE_EVENT_MAP ==
    [e \in {"tool:pre", "tool:post", "prompt:submit", "session:start",
            "session:end", "prompt:complete", "context:pre_compact",
            "approval:required", "session:resume", "user:notification"} |->
        CASE e = "tool:pre" -> "PreToolUse"
          [] e = "tool:post" -> "PostToolUse"
          [] e = "prompt:submit" -> "UserPromptSubmit"
          [] e = "session:start" -> "SessionStart"
          [] e = "session:end" -> "SessionEnd"
          [] e = "prompt:complete" -> "Stop"
          [] e = "context:pre_compact" -> "PreCompact"
          [] e = "approval:required" -> "PermissionRequest"
          [] e = "session:resume" -> "SessionStart"
          [] e = "user:notification" -> "Notification"]

\* {event: MatcherGroup(config)} for every event of a hooks configuration
MatcherGroups(hooks_config) ==
    [e \in DOMAIN hooks_config |-> MatcherGroup(hooks_config[e])]

IdleCall ==
    /\ pc = "idle"
    /\ amplifier_event = ""
    /\ data = EmptyDict
    /\ matching_groups = <<>>
    /\ claude_data = EmptyDict
    /\ gi = 0
    /\ hi = 0
    /\ tasks = <<>>
    /\ result = None
    /\ sources = <<>>
    /\ invoked = <<>>
    /\ outcomes = <<>>
    /\ ndispatch = 0
    /\ nskillops = 0
    /\ executed = <<>>
    /\ registered = <<>>
    /\ skill_event = None

\* no event emitted yet
NoEvent ==
    /\ emitted = None
    /\ payload = None

\* no matches call yet
NoMatching ==
    /\ matcher_pattern = <<>>
    /\ matcher_target = <<>>
    /\ matched = None

\* no _parse_prompt_response call yet
NoEvaluation ==
    /\ response_text = None
    /\ parsed = None

NoTranslation ==
    /\ exit_code = 0
    /\ stdout = [kind |-> "ws", text |-> <<>>]
    /\ stderr = <<>>
    /\ result_fields = None

\* no temporary file yet, no execute call yet
NoExecution ==
    /\ files = [q \in {} |-> <<>>]
    /\ ntemp = 0
    /\ calls = <<>>
    /\ prepared = None
    /\ last_op = None
    /\ nexec = 0

\* os.environ of the process the bridge runs in
ParentEnv == <<"PATH">> :> <<"/usr/bin">>

\* ShellHookBridge.__init__
Init ==
    /\ \E b \in Bridges :
        /\ enabled = b[1]
        /\ coordinator = b[2]
        /\ matcher_groups = MatcherGroups(b[3])
    /\ skill_scoped_hooks = <<>>
    /\ skill_matcher_groups = <<>>
    /\ executor = None
    /\ IdleCall
    /\ NoEvent
    /\ NoMatching
    /\ NoEvaluation
    /\ NoTranslation
    /\ environ = ParentEnv
    /\ NoExecution

(***************************************************************************)
(* Skill-scoped hooks                                                      *)
(***************************************************************************)
\* str(Path(skill_dir) / command).resolve(): "." components are dropped and a
\* ".." component drops the component before it
resolve(skill_dir, command) ==
    IF command[1] = "./" THEN skill_dir \o Tail(command)
    ELSE SubSeq(skill_dir, 1, Len(skill_dir) - 1) \o Tail(command)

\* the body of the innermost loop of _resolve_skill_hook_paths
resolve_hook(hook, skill_dir) ==
    IF "type" \in DOMAIN hook /\ hook["type"] = "command"
       /\ get(hook, "command", <<>>) # <<>>
       /\ hook["command"][1] \in {"./", "../"}
    THEN [hook EXCEPT !["command"] = resolve(skill_dir, hook["command"])]
    ELSE hook

\* _resolve_skill_hook_paths: the hook dicts are updated in place
_resolve_skill_hook_paths(hooks_config, skill_dir) ==
    [e \in DOMAIN hooks_config |->
        [m \in DOMAIN hooks_config[e] |->
            LET mc == hooks_config[e][m]
            IN  IF "hooks" \in DOMAIN mc
                THEN [mc EXCEPT !["hooks"] =
                        [h \in DOMAIN mc["hooks"] |->
                            resolve_hook(mc["hooks"][h], skill_dir)]]
                ELSE mc]]

\* The owners registered, as the notifications announce them: a skill:loaded
\* with an owner and a configuration registers the owner (a registered owner
\* keeps its place and takes the new declaration), a skill:unloaded removes it.
Registration(name, d) ==
    [owner |-> name, directory |-> get(d, "skill_directory", <<>>)]

Owners(reg) == {reg[i].owner : i \in DOMAIN reg}

Registered(reg, name, d) ==
    IF name \in Owners(reg)
    THEN [i \in DOMAIN reg |->
            IF reg[i].owner = name THEN Registration(name, d) ELSE reg[i]]
    ELSE Append(reg, Registration(name, d))

Unregistered(reg, name) == SelectSeq(reg, LAMBDA r : r.owner # name)

\* the notification handled, what the handler returned or raised, and the two
\* tables as they were before it
SkillEvent(event, d, res) ==
    [event |-> event, data |-> d, result |-> res,
     hooks_before |-> skill_scoped_hooks, groups_before |-> skill_matcher_groups]

\* Coroutines run on one event loop: a notification is handled while no
\* dispatch runs or while one is suspended at an await, never inside the
\* synchronous stretch between two awaits (pc = "loop").
AtAwait == pc # "loop"

\* the test of on_skill_loaded, mutated: an empty configuration is registered
loaded_ignored_unless_named(d) ==
    "skill_name" \notin DOMAIN d \/ d["skill_name"] = ""

\* not skill_name or not hooks_config
loaded_ignored(d) ==
    \/ "skill_name" \notin DOMAIN d
    \/ d["skill_name"] = ""
    \/ "hooks" \notin DOMAIN d
    \/ d["hooks"] = EmptyDict

\* MatcherGroup(matchers_config) raises: matcher_config.get on an entry of
\* the list that is no dict (None here) is an AttributeError
MatcherGroupRaises(matchers_config) ==
    \E m \in DOMAIN matchers_config : IsNone(matchers_config[m])

\* the loop of on_skill_loaded over hooks_config.items() raises
skill_matchers_raise(hooks_config) ==
    \E event_name \in DOMAIN hooks_config :
        MatcherGroupRaises(hooks_config[event_name])

\* on_skill_loaded.  The matcher groups hold the very hook dicts of the
\* stored configuration, so the path resolution shows in both tables.  The
\* configuration is stored before the matcher groups are built: when
\* building them raises, the handler raises with the configuration stored
\* and the matcher groups of the owner as they were.
on_skill_loaded(d) ==
    /\ AtAwait
    /\ nskillops < MaxSkillOps
    /\ nskillops' = nskillops + 1
    /\ skill_event' =
          SkillEvent("skill:loaded", d,
                     IF ~loaded_ignored(d)
                        /\ skill_matchers_raise(get(d, "hooks", EmptyDict))
                     THEN Raise("AttributeError") ELSE CONTINUE)
    /\ IF loaded_ignored(d)
       THEN UNCHANGED <<skill_scoped_hooks, skill_matcher_groups, registered>>
       ELSE IF skill_matchers_raise(get(d, "hooks", EmptyDict))
       THEN /\ skill_scoped_hooks' =
                  DictSet(skill_scoped_hooks, d["skill_name"],
                          get(d, "hooks", EmptyDict))
            /\ UNCHANGED <<skill_matcher_groups, registered>>
       ELSE LET hooks_config ==
                    IF get(d, "skill_directory", <<>>) # <<>>
                    THEN _resolve_skill_hook_paths(get(d, "hooks", EmptyDict),
                                                   d["skill_directory"])
                    ELSE get(d, "hooks", EmptyDict)
            IN  /\ skill_scoped_hooks' =
                        DictSet(skill_scoped_hooks, d["skill_name"], hooks_config)
                /\ skill_matcher_groups' =
                        DictSet(skill_matcher_groups, d["skill_name"],
                                MatcherGroups(hooks_config))
                /\ registered' = Registered(registered, d["skill_name"], d)
    /\ UNCHANGED <<enabled, coordinator, matcher_groups, executor>>
    /\ UNCHANGED <<call_vars, sources, invoked, outcomes, ndispatch, executed>>
    /\ UNCHANGED translator_vars
    /\ UNCHANGED <<host_vars, matcher_vars, prompt_vars>>
    /\ UNCHANGED <<world_vars, executor_history>>

\* if skill_name in self.skill_scoped_hooks
has_hooks(table, skill_name) == skill_name \in DictKeys(table)

\* the second test mutated: the matcher groups of the owner are never removed
has_groups_never(table, skill_name) == FALSE

\* if skill_name in self.skill_matcher_groups
has_groups(table, skill_name) == skill_name \in DictKeys(table)

\* on_skill_unloaded; del raises KeyError for a key that is not in the table
on_skill_unloaded(d) ==
    /\ AtAwait
    /\ nskillops < MaxSkillOps
    /\ nskillops' = nskillops + 1
    /\ IF "skill_name" \notin DOMAIN d \/ d["skill_name"] = ""
       THEN /\ skill_event' = SkillEvent("skill:unloaded", d, CONTINUE)
            /\ UNCHANGED <<skill_scoped_hooks, skill_matcher_groups, registered>>
       ELSE LET skill_name == d["skill_name"]
                del_hooks == has_hooks(skill_scoped_hooks, skill_name)
                del_groups == has_groups(skill_matcher_groups, skill_name)
            IN  IF del_hooks /\ skill_name \notin DictKeys(skill_scoped_hooks)
                THEN /\ skill_event' =
                            SkillEvent("skill:unloaded", d, Raise("KeyError"))
                     /\ UNCHANGED <<skill_scoped_hooks, skill_matcher_groups,
                                    registered>>
                ELSE /\ skill_scoped_hooks' =
                            IF del_hooks THEN DictDel(skill_scoped_hooks, skill_name)
                            ELSE skill_scoped_hooks
                     /\ IF del_groups /\ skill_name \notin DictKeys(skill_matcher_groups)
                        THEN /\ skill_event' =
                                    SkillEvent("skill:unloaded", d, Raise("KeyError"))
                             /\ UNCHANGED skill_matcher_groups
                        ELSE /\ skill_event' =
                                    SkillEvent("skill:unloaded", d, CONTINUE)
                             /\ skill_matcher_groups' =
                                    IF del_groups
                                    THEN DictDel(skill_matcher_groups, skill_name)
                                    ELSE skill_matcher_groups
                     /\ registered' = Unregistered(registered, skill_name)
    /\ UNCHANGED <<enabled, coordinator, matcher_groups, executor>>
    /\ UNCHANGED <<call_vars, sources, invoked, outcomes, ndispatch, executed>>
    /\ UNCHANGED translator_vars
    /\ UNCHANGED <<host_vars, matcher_vars, prompt_vars>>
    /\ UNCHANGED <<world_vars, executor_history>>

(***************************************************************************)
(* DataTranslator.to_claude_format (the timestamp is the token "now")      *)
(***************************************************************************)
to_claude_format(event, d) ==
    CASE event = "PreToolUse" ->
            [tool_name |-> get(d, "name", ""), tool_input |-> get(d, "input", ""),
             timestamp |-> "now"]
      [] event = "PostToolUse" ->
            [tool_name |-> get(d, "name", ""), tool_input |-> get(d, "input", ""),
             tool_result |-> get(d, "result", ""), timestamp |-> "now"]
      [] event = "UserPromptSubmit" ->
            [prompt |-> get(d, "prompt", ""), timestamp |-> "now"]
      [] event = "SessionStart" ->
            [session_id |-> get(d, "session_id", ""),
             trigger |-> get(d, "trigger", "startup"), timestamp |-> "now"]
      [] event = "SessionEnd" ->
            [session_id |-> get(d, "session_id", ""), timestamp |-> "now"]
      [] OTHER -> [timestamp |-> "now"] @@ d

(***************************************************************************)
(* HookExecutor                                                            *)
(***************************************************************************)
DEFAULT_TIMEOUT == 30

\* An environment is a dict from variable names to values, both texts.
EmptyEnv == [k \in {} |-> <<>>]

\* dict.update: the pairs of the second dict win
update(env, pairs) == pairs @@ env

\* the bridge's project_dir and hooks_dir as texts
PROJECT_DIR == <<"/project">>
HOOKS_DIR == <<"/project", "/.amplifier", "/hooks">>

\* HookExecutor.__init__
HookExecutor(session_id) ==
    [session_id |-> session_id, _env_file |-> None, _persisted_env |-> EmptyEnv]

\* _get_executor mutated: an executor for every session id
_get_executor_per_session(session_id) ==
    IF IsNone(executor) \/ executor.session_id # session_id
    THEN HookExecutor(session_id)
    ELSE executor

\* _get_executor
_get_executor(session_id) ==
    IF IsNone(executor) THEN HookExecutor(session_id) ELSE executor

\* tempfile.mkstemp(prefix="amplifier-env-<session_id[:8]>-", suffix=".env"):
\* the n-th temporary file (the session ids of the model have at most 8
\* characters)
mkstemp(session_id, n) ==
    <<"/tmp/amplifier-env-", session_id, "-", ToString(n), ".env">>

\* _get_env_file, called by _prepare_environment: the file is made on first use
_get_env_file(ex) ==
    IF IsNone(ex._env_file)
    THEN [ex EXCEPT !._env_file = [path |-> mkstemp(ex.session_id, ntemp + 1)]]
    ELSE ex

\* what _get_env_file does to the file system and to the count of temporary files
EnvFileMade(ex, fs) ==
    IF IsNone(ex._env_file)
    THEN (mkstemp(ex.session_id, ntemp + 1) :> <<>>) @@ fs
    ELSE fs

TempFilesMade(ex) == IF IsNone(ex._env_file) THEN ntemp + 1 ELSE ntemp

\* the Amplifier variables and the Claude Code alias of _prepare_environment
IdentityVariables(ex) ==
    (<<"AMPLIFIER_PROJECT_DIR">> :> PROJECT_DIR)
    @@ (<<"AMPLIFIER_HOOKS_DIR">> :> HOOKS_DIR)
    @@ (<<"AMPLIFIER_SESSION_ID">> :> <<ex.session_id>>)
    @@ (<<"CLAUDE_PROJECT_DIR">> :> PROJECT_DIR)

\* the environment file variables; ex is the executor after _get_env_file
EnvFileVariables(ex) ==
    (<<"AMPLIFIER_ENV_FILE">> :> ex._env_file.path)
    @@ (<<"CLAUDE_ENV_FILE">> :> ex._env_file.path)

\* the overlay mutated: the persisted pairs are applied before the variables
\* of the executor
_prepare_environment_persisted_first(ex, os_environ) ==
    update(update(update(os_environ, ex._persisted_env),
                  IdentityVariables(ex)),
           EnvFileVariables(_get_env_file(ex)))

\* _prepare_environment: the dict it returns
_prepare_environment(ex, os_environ) ==
    update(update(update(os_environ, IdentityVariables(ex)),
                  EnvFileVariables(_get_env_file(ex))),
           ex._persisted_env)

\* str.find: the index of the first c in s, 0 when there is none
find(s, c) ==
    IF \E i \in DOMAIN s : s[i] = c
    THEN CHOOSE i \in DOMAIN s : s[i] = c /\ \A j \in 1..(i - 1) : s[j] # c
    ELSE 0

\* str.split("\n")
RECURSIVE split_lines(_)
split_lines(s) ==
    IF find(s, "\n") = 0 THEN <<s>>
    ELSE <<SubSeq(s, 1, find(s, "\n") - 1)>>
         \o split_lines(SubSeq(s, find(s, "\n") + 1, Len(s)))

\* line.startswith("export "): the word export and a blank
startswith_export(line) == Len(line) >= 2 /\ line[1] = "export" /\ line[2] = " "

\* the test for surrounding quotes
quoted(value) ==
    /\ value # <<>>
    /\ \/ value[1] = "\"" /\ value[Len(value)] = "\""
       \/ value[1] = "'" /\ value[Len(value)] = "'"

\* the assignment mutated: a key the store holds keeps its value
store_pair_if_new(store, key, value) ==
    IF key \in DOMAIN store THEN store ELSE update(store, key :> value)

\* self._persisted_env[key] = value
store_pair(store, key, value) == update(store, key :> value)

\* the body of the loop of _load_persisted_env, for one line of the file
load_line(store, raw_line) ==
    LET line == strip(raw_line)
    IN  IF line = <<>> \/ line[1] = "#" THEN store
        ELSE LET body == IF startswith_export(line)
                         THEN SubSeq(line, 3, Len(line)) ELSE line
                 eq == find(body, "=")
             IN  IF eq = 0 THEN store
                 ELSE LET key == strip(SubSeq(body, 1, eq - 1))
                          value == strip(SubSeq(body, eq + 1, Len(body)))
                      IN  store_pair(store, key,
                                     IF quoted(value)
                                     THEN SubSeq(value, 2, Len(value) - 1)
                                     ELSE value)

\* the loop over the lines, from line i
RECURSIVE load_lines(_, _, _)
load_lines(store, lines, i) ==
    IF i > Len(lines) THEN store
    ELSE load_lines(load_line(store, lines[i]), lines, i + 1)

\* _load_persisted_env mutated: the store is emptied before the file is read
_load_persisted_env_afresh(ex, fs) ==
    IF IsNone(ex._env_file) THEN ex
    ELSE IF ex._env_file.path \notin DOMAIN fs THEN ex
    ELSE [ex EXCEPT !._persisted_env =
            load_lines(EmptyEnv, split_lines(strip(fs[ex._env_file.path])), 1)]

\* _load_persisted_env mutated: the file is never read
_load_persisted_env_never(ex, fs) == ex

\* _load_persisted_env; fs is the file system, a dict from the paths of the
\* files that exist to their contents (the executor's own temporary files:
\* reading and unlinking one succeeds)
_load_persisted_env(ex, fs) ==
    IF IsNone(ex._env_file) THEN ex
    ELSE IF ex._env_file.path \notin DOMAIN fs THEN ex
    ELSE [ex EXCEPT !._persisted_env =
            load_lines(@, split_lines(strip(fs[ex._env_file.path])), 1)]

\* Path.unlink
unlink(fs, path) == [q \in DOMAIN fs \ {path} |-> fs[q]]

\* cleanup mutated: the path is forgotten and the file stays
cleanup_forgets_file(ex, fs) ==
    IF ~IsNone(ex._env_file)
    THEN [executor |-> [ex EXCEPT !._env_file = None], files |-> fs]
    ELSE [executor |-> ex, files |-> fs]

\* cleanup: the executor and the file system after it
cleanup(ex, fs) ==
    IF IsNone(ex._env_file) THEN [executor |-> ex, files |-> fs]
    ELSE IF ex._env_file.path \notin DOMAIN fs THEN [executor |-> ex, files |-> fs]
    ELSE [executor |-> [ex EXCEPT !._env_file = None],
          files |-> unlink(fs, ex._env_file.path)]

NoOutput == [kind |-> "ws", text |-> <<>>]

\* what execute returns from its TimeoutError handler; mutated: exit code 2
TimeoutReturnsTwo(timeout) ==
    [code |-> 2, out |-> NoOutput,
     err |-> <<"Hook", " ", "timed out", " ", "after", " ", ToString(timeout), "s">>]

TimeoutReturn(timeout) ==
    [code |-> 1, out |-> NoOutput,
     err |-> <<"Hook", " ", "timed out", " ", "after", " ", ToString(timeout), "s">>]

\* what execute returns from its Exception handler
FailureReturn(description) ==
    [code |-> 1, out |-> NoOutput,
     err |-> <<"Hook", " ", "execution", " ", "failed:", " ", description>>]

\* what a handler process may write and exit with: (returncode, stdout, stderr)
ProcOutputs ==
    { [code |-> 0, out |-> NoOutput, err |-> <<>>],
      [code |-> 2, out |-> [kind |-> "json", value |-> JObj([decision |-> APPROVE])],
       err |-> <<"Blocked", "\n">>],
      [code |-> 0,
       out |-> [kind |-> "json",
                value |-> JObj([decision |-> BLOCK,
                                reason |-> JStr(<<"File is protected">>),
                                systemMessage |-> JStr(<<"Cannot modify">>)])],
       err |-> <<>>],
      [code |-> 0,
       out |-> [kind |-> "json",
                value |-> JObj([contextInjection |-> JStr(<<"Linting errors">>)])],
       err |-> <<>>],
      [code |-> 0,
       out |-> [kind |-> "json", value |-> JObj([newContent |-> JStr(<<"new">>)])],
       err |-> <<>>],
      [code |-> 0, out |-> [kind |-> "json", value |-> JArr(<<>>)], err |-> <<>>] }

(***************************************************************************)
(* Prompt hooks                                                            *)
(***************************************************************************)
\* bool(x) mutated: nothing but the boolean true is true
only_true(j) == j.t = "bool" /\ j.v

\* bool(x) of a JSON value
truthy(j) ==
    CASE j.t = "bool" -> j.v
      [] j.t = "null" -> FALSE
      [] j.t = "num" -> j.v # 0
      [] j.t = "str" -> j.v # <<>>
      [] j.t = "arr" -> j.v # <<>>
      [] OTHER -> TRUE

\* str.lower() of the tokens that spell an ok value
lower_tokens(s) ==
    [i \in DOMAIN s |->
        CASE s[i] = "YES" -> "yes"
          [] s[i] = "True" -> "true"
          [] s[i] = "OK" -> "ok"
          [] OTHER -> s[i]]

\* A provider reply is [content |-> "empty"] or a text,
\*   [content |-> "text", json |-> the first {...} of the text decoded (None
\*    when there is none or it is not JSON), negative, starts_no, positive |->
\*    whether the lower-cased text has such a phrase]
\* _parse_prompt_response
_parse_prompt_response(reply) ==
    IF ~IsNone(reply.json)
    THEN LET ok_value == get(reply.json, "ok", JBool(TRUE))
             ok == IF ok_value.t = "bool" THEN ok_value.v
                   ELSE IF ok_value.t = "str"
                   THEN lower_tokens(ok_value.v) \in
                            {<<"true">>, <<"yes">>, <<"1">>, <<"ok">>}
                   ELSE truthy(ok_value)
         IN  [ok |-> ok, reason |-> get(reply.json, "reason", JStr(<<>>))]
    ELSE IF reply.negative \/ reply.starts_no
    THEN [ok |-> FALSE, reason |-> JStr(<<"reply">>)]
    ELSE IF reply.positive
    THEN [ok |-> TRUE, reason |-> JStr(<<"reply">>)]
    ELSE [ok |-> TRUE, reason |-> JStr(<<"Could not parse response">>)]

ProviderReplies ==
    { [content |-> "empty"],
      [content |-> "text",
       json |-> [ok |-> JBool(TRUE), reason |-> JStr(<<"fine">>)],
       negative |-> FALSE, starts_no |-> FALSE, positive |-> FALSE],
      [content |-> "text",
       json |-> [ok |-> JBool(FALSE), reason |-> JStr(<<"unsafe">>)],
       negative |-> FALSE, starts_no |-> FALSE, positive |-> TRUE],
      [content |-> "text", json |-> [ok |-> JStr(<<"YES">>)],
       negative |-> FALSE, starts_no |-> FALSE, positive |-> FALSE],
      [content |-> "text", json |-> None,
       negative |-> TRUE, starts_no |-> FALSE, positive |-> TRUE],
      [content |-> "text", json |-> None,
       negative |-> FALSE, starts_no |-> FALSE, positive |-> FALSE] }

\* the fail-open answers of _execute_prompt_hook
NoProvider == [ok |-> TRUE, reason |-> JStr(<<"No provider available">>)]
AccessFailed == [ok |-> TRUE, reason |-> JStr(<<"Provider access failed">>)]
EmptyResponse == [ok |-> TRUE, reason |-> JStr(<<"Empty provider response">>)]
\* the answer to a provider that raises, mutated: fail closed
ExecutionErrorFailsClosed == [ok |-> FALSE, reason |-> JStr(<<"Execution error">>)]

ExecutionError == [ok |-> TRUE, reason |-> JStr(<<"Execution error">>)]

\* the answer without a coordinator, mutated: fail closed
NoCoordinatorFailsClosed == [ok |-> FALSE, reason |-> JStr(<<"No provider available">>)]

NoCoordinator == NoProvider

\* the prompt branch mutated: every evaluation continues
PromptAlwaysContinues(prompt_result) == CONTINUE

\* _execute_single_hook, prompt branch: ok -> continue, not ok -> deny
PromptResultFields(prompt_result) ==
    IF prompt_result.ok
    THEN IF truthy(prompt_result.reason)
         THEN [action |-> "continue", user_message |-> prompt_result.reason]
         ELSE CONTINUE
    ELSE [action |-> "deny", reason |-> prompt_result.reason]

(***************************************************************************)
(* _execute_single_hook                                                    *)
(*                                                                         *)
(* A task is one _execute_single_hook call.  It is done at once when the   *)
(* hook is skipped or fails before its first await; otherwise it waits for *)
(* the child process (wait = "proc"), for the killed child to be reaped    *)
(* (wait = "reap") or for the provider (wait = "provider").                *)
(*   how: what happened;  ret: what execute (or the prompt evaluation)     *)
(*   returned or raised;  res: the result fields, or the exception the     *)
(*   call raised.                                                          *)
(***************************************************************************)
Done(how, ret, res) ==
    [st |-> "done", wait |-> "none", proc |-> "none", timeout |-> 0,
     how |-> how, ret |-> ret, res |-> res]

Waiting(wait, proc, timeout) ==
    [st |-> "running", wait |-> wait, proc |-> proc, timeout |-> timeout,
     how |-> "pending", ret |-> None, res |-> None]

hook_type(hook_config) == get(hook_config, "type", "command")

\* the hook reaches executor.execute
UsesExecutor(hook_config) ==
    hook_type(hook_config) = "command" /\ get(hook_config, "command", <<>>) # <<>>

\* _execute_single_hook mutated: no hook is skipped
StartHookNeverSkips(hook_config, spawn_ok, providers) ==
    IF hook_type(hook_config) = "command"
    THEN IF spawn_ok
         THEN Waiting("proc", "running", get(hook_config, "timeout", DEFAULT_TIMEOUT))
         ELSE Done("spawn_error", Raise("OSError"), Raise("OSError"))
    ELSE IF coordinator = "None"
    THEN Done("no_coordinator", NoCoordinator, PromptResultFields(NoCoordinator))
    ELSE Waiting("provider", "none", 0)

\* _execute_single_hook up to its first await.  spawn_ok: whether
\* create_subprocess_shell succeeds; providers: what coordinator.get gives.
StartHook(hook_config, spawn_ok, providers) ==
    IF hook_type(hook_config) = "command"
    THEN IF get(hook_config, "command", <<>>) = <<>>
         THEN Done("skipped", None, CONTINUE)
         ELSE IF spawn_ok
         THEN Waiting("proc", "running", get(hook_config, "timeout", DEFAULT_TIMEOUT))
         ELSE Done("spawn_error", Raise("OSError"), Raise("OSError"))
    ELSE IF hook_type(hook_config) = "prompt"
    THEN IF get(hook_config, "prompt", <<>>) = <<>>
         THEN Done("skipped", None, CONTINUE)
         ELSE IF coordinator = "None"
         THEN Done("no_coordinator", NoCoordinator, PromptResultFields(NoCoordinator))
         ELSE IF providers = "raises"
         THEN Done("provider_access_failed", AccessFailed,
                   PromptResultFields(AccessFailed))
         ELSE IF providers = "empty"
         THEN Done("no_providers", NoProvider, PromptResultFields(NoProvider))
         ELSE Waiting("provider", "none", 0)
    ELSE Done("skipped", None, CONTINUE)

(***************************************************************************)
(* _execute_hooks                                                          *)
(***************************************************************************)
\* the test of the sequential loop, mutated: only deny stops the entry
seq_blocks_only_deny(action) == action = "deny"

\* action in ("deny", "modify", "inject_context"), sequential loop
seq_blocks(action) == action \in {"deny", "modify", "inject_context"}

\* the test of the parallel branch, mutated: only deny is returned
par_blocks_only_deny(action) == action = "deny"

\* action in ("deny", "modify", "inject_context"), parallel branch
par_blocks(action) == action \in {"deny", "modify", "inject_context"}

\* the result loop mutated: the last blocking result is the one returned
RECURSIVE LastBlocking(_, _)
LastBlocking(results, i) ==
    IF i > Len(results) THEN 0
    ELSE IF LastBlocking(results, i + 1) # 0 THEN LastBlocking(results, i + 1)
    ELSE IF IsException(results[i]) THEN 0
    ELSE IF par_blocks(get(results[i], "action", "continue")) THEN i
    ELSE 0

\* the result loop mutated: an exception ends the inspection (break)
RECURSIVE FirstBlockingStopsAtException(_, _)
FirstBlockingStopsAtException(results, i) ==
    IF i > Len(results) THEN 0
    ELSE IF IsException(results[i]) THEN 0
    ELSE IF par_blocks(get(results[i], "action", "continue")) THEN i
    ELSE FirstBlockingStopsAtException(results, i + 1)

\* the loop over the gathered results, from index i: the index of the first
\* result that is not an exception and is blocking, 0 when there is none
RECURSIVE FirstBlocking(_, _)
FirstBlocking(results, i) ==
    IF i > Len(results) THEN 0
    ELSE IF IsException(results[i]) THEN FirstBlocking(results, i + 1)
    ELSE IF par_blocks(get(results[i], "action", "continue")) THEN i
    ELSE FirstBlocking(results, i + 1)

\* gather mutated: it returns as soon as one task is done
AnyDone(ts) == \E i \in DOMAIN ts : ts[i].st = "done"

\* asyncio.gather returns when every task is done
AllDone(ts) == \A i \in DOMAIN ts : ts[i].st = "done"

Parallel(matcher_group) == get(matcher_group, "parallel", FALSE)

\* the loop over the skill table mutated: it stops after the first owner
SkillGroupsOneOwner(table, claude_event, match_target, i) ==
    IF i > Len(table) \/ i > 1 THEN <<>>
    ELSE IF claude_event \in DOMAIN table[i].v
         THEN get_matching_groups(table[i].v[claude_event], match_target)
         ELSE <<>>

\* the loop over the skill table mutated: the owner registered last comes first
RECURSIVE SkillGroupsLastFirst(_, _, _, _)
SkillGroupsLastFirst(table, claude_event, match_target, i) ==
    IF i > Len(table) THEN <<>>
    ELSE SkillGroupsLastFirst(table, claude_event, match_target, i + 1)
         \o (IF claude_event \in DOMAIN table[i].v
             THEN get_matching_groups(table[i].v[claude_event], match_target)
             ELSE <<>>)

\* the matching entries of the skill tables, in table order, from index i
RECURSIVE SkillGroups(_, _, _, _)
SkillGroups(table, claude_event, match_target, i) ==
    IF i > Len(table) THEN <<>>
    ELSE (IF claude_event \in DOMAIN table[i].v
          THEN get_matching_groups(table[i].v[claude_event], match_target)
          ELSE <<>>)
         \o SkillGroups(table, claude_event, match_target, i + 1)

\* the source of each of those entries
RECURSIVE SkillSources(_, _, _, _)
SkillSources(table, claude_event, match_target, i) ==
    IF i > Len(table) THEN <<>>
    ELSE (IF claude_event \in DOMAIN table[i].v
          THEN [j \in DOMAIN get_matching_groups(table[i].v[claude_event],
                                                 match_target) |-> table[i].k]
          ELSE <<>>)
         \o SkillSources(table, claude_event, match_target, i + 1)

\* the mapping mutated: an event outside the map is taken for a tool event
claude_event_of_tool_event(ev) ==
    IF ev \in DOMAIN CLAUDE_EVENT_MAP THEN CLAUDE_EVENT_MAP[ev] ELSE "PreToolUse"

claude_event_of(ev) ==
    IF ev \in DOMAIN CLAUDE_EVENT_MAP THEN CLAUDE_EVENT_MAP[ev] ELSE ""

\* the target mutated: the tool name for every event
match_target_of_tool_name(claude_event, d) ==
    get(d, "tool_name", get(d, "name", ""))

\* the target mutated: the name key before the tool_name key
match_target_of_name_first(claude_event, d) ==
    IF claude_event = "SessionStart" THEN get(d, "trigger", "startup")
    ELSE get(d, "name", get(d, "tool_name", ""))

match_target_of(claude_event, d) ==
    IF claude_event = "SessionStart" THEN get(d, "trigger", "startup")
    ELSE get(d, "tool_name", get(d, "name", ""))

dir_groups_of(claude_event, match_target) ==
    IF claude_event \in DOMAIN matcher_groups
    THEN get_matching_groups(matcher_groups[claude_event], match_target)
    ELSE <<>>

\* _execute_hooks from its call to the loop over the matching groups
_execute_hooks(ev, d) ==
    /\ pc \in {"idle", "returned", "raised"}
    /\ ndispatch' = ndispatch + 1
    /\ amplifier_event' = ev
    /\ data' = d
    /\ invoked' = <<>>
    /\ outcomes' = <<>>
    /\ executed' = <<>>
    /\ tasks' = <<>>
    /\ LET claude_event == claude_event_of(ev)
           match_target == match_target_of(claude_event, d)
           dir_groups == dir_groups_of(claude_event, match_target)
           groups == dir_groups
                     \o SkillGroups(skill_matcher_groups, claude_event, match_target, 1)
       IN  IF ~enabled \/ claude_event = "" \/ groups = <<>>
           THEN /\ pc' = "returned"
                /\ result' = CONTINUE
                /\ matching_groups' = <<>>
                /\ sources' = <<>>
                /\ claude_data' = EmptyDict
                /\ gi' = 0
                /\ hi' = 0
                /\ UNCHANGED executor
           ELSE /\ pc' = "loop"
                /\ result' = None
                /\ matching_groups' = groups
                /\ sources' = [j \in DOMAIN dir_groups |-> "base"]
                        \o SkillSources(skill_matcher_groups, claude_event,
                                        match_target, 1)
                /\ claude_data' = to_claude_format(claude_event, d)
                /\ gi' = 1
                /\ hi' = 1
                /\ executor' = _get_executor(get(d, "session_id", "unknown"))
    /\ UNCHANGED <<enabled, coordinator, matcher_groups, skill_scoped_hooks,
                   skill_matcher_groups, nskillops, skill_history>>
    /\ UNCHANGED translator_vars
    /\ UNCHANGED matcher_vars
    /\ response_text' = None
    /\ parsed' = None
    /\ UNCHANGED <<world_vars, executor_history>>

\* the trigger mutated: {"trigger": "resume", **data}
data_keeps_trigger(d) ==
    [key \in DOMAIN d \cup {"trigger"} |->
        IF key \in DOMAIN d THEN d[key] ELSE "resume"]

\* on_session_resume: {**data, "trigger": "resume"}, a new mapping
data_with_trigger(d) ==
    [key \in DOMAIN d \cup {"trigger"} |->
        IF key = "trigger" THEN "resume" ELSE d[key]]

\* the event the host emits and the mapping it passes
Emitted(ev, d) == [event |-> ev, data |-> d]

\* on_tool_pre, on_tool_post, ..., on_user_notification (all but
\* on_session_resume): _execute_hooks with the event of the handler and the
\* data of the host
Dispatch(ev, d) ==
    /\ ndispatch < MaxDispatches
    /\ _execute_hooks(ev, d)
    /\ emitted' = Emitted(ev, d)
    /\ payload' = d

\* the loop moves to the matcher group after g, or falls out of the loop
Advance(g) ==
    /\ gi' = g + 1
    /\ hi' = 1
    /\ IF g < Len(matching_groups)
       THEN pc' = "loop" /\ result' = result
       ELSE pc' = "returned" /\ result' = CONTINUE

\* the sequential loop mutated: after the last hook of the last entry the
\* result of that hook is returned
SeqContinueReturnsLast(res) ==
    IF IsException(res)
    THEN pc' = "raised" /\ result' = res /\ UNCHANGED <<gi, hi>>
    ELSE IF seq_blocks(get(res, "action", "continue"))
    THEN pc' = "returned" /\ result' = res /\ UNCHANGED <<gi, hi>>
    ELSE IF hi < Len(matching_groups[gi]["hooks"])
    THEN pc' = "loop" /\ hi' = hi + 1 /\ UNCHANGED <<gi, result>>
    ELSE IF gi < Len(matching_groups)
    THEN Advance(gi)
    ELSE pc' = "returned" /\ result' = res /\ gi' = gi + 1 /\ hi' = 1

\* the sequential loop after the awaited hook gave res
SeqContinue(res) ==
    IF IsException(res)
    THEN pc' = "raised" /\ result' = res /\ UNCHANGED <<gi, hi>>
    ELSE IF seq_blocks(get(res, "action", "continue"))
    THEN pc' = "returned" /\ result' = res /\ UNCHANGED <<gi, hi>>
    ELSE IF hi < Len(matching_groups[gi]["hooks"])
    THEN pc' = "loop" /\ hi' = hi + 1 /\ UNCHANGED <<gi, result>>
    ELSE Advance(gi)

Outcome(task) ==
    [how |-> task.how, proc |-> task.proc, ret |-> task.ret, res |-> task.res]

\* executor.execute(command, claude_data, timeout) is called for the hook at
\* pos; env is what its _prepare_environment returns
Execution(pos, hook_config, env) ==
    [pos |-> pos, command |-> hook_config["command"], env |-> env]

\* what _prepare_environment returned, the executor it left and the
\* os.environ it copied
Prepared(ex, os_environ) ==
    [env |-> _prepare_environment(ex, os_environ),
     executor |-> _get_env_file(ex),
     environ |-> os_environ]

\* execute up to the spawn: env = self._prepare_environment()
Prepare ==
    /\ executor' = _get_env_file(executor)
    /\ files' = EnvFileMade(executor, files)
    /\ ntemp' = TempFilesMade(executor)
    /\ prepared' = Prepared(executor, environ)

\* sequential entry: the next hook is called
Invoke ==
    /\ pc = "loop"
    /\ ~Parallel(matching_groups[gi])
    /\ \E spawn_ok \in BOOLEAN, providers \in {"raises", "empty", "provider"} :
        LET hook_config == matching_groups[gi]["hooks"][hi]
            task == StartHook(hook_config, spawn_ok, providers)
        IN  /\ invoked' = Append(invoked, <<gi, hi>>)
            /\ IF UsesExecutor(hook_config)
               THEN Prepare
               ELSE UNCHANGED <<executor, files, ntemp, prepared>>
            /\ executed' = IF UsesExecutor(hook_config)
                           THEN Append(executed,
                                       Execution(<<gi, hi>>, hook_config,
                                                 _prepare_environment(executor,
                                                                      environ)))
                           ELSE executed
            /\ tasks' = (hi :> task)
            /\ IF task.st = "done"
               THEN /\ outcomes' = (<<gi, hi>> :> Outcome(task)) @@ outcomes
                    /\ SeqContinue(task.res)
               ELSE /\ pc' = "await"
                    /\ UNCHANGED <<gi, hi, result, outcomes>>
    /\ UNCHANGED <<enabled, coordinator, matcher_groups, skill_scoped_hooks,
                   skill_matcher_groups>>
    /\ UNCHANGED <<amplifier_event, data, matching_groups, claude_data>>
    /\ UNCHANGED <<sources, ndispatch, nskillops, skill_history>>
    /\ UNCHANGED translator_vars
    /\ UNCHANGED <<host_vars, matcher_vars, prompt_vars>>
    /\ UNCHANGED <<environ, calls, last_op, nexec>>

\* parallel entry: asyncio.gather starts one task per hook, in list order.
\* Each task runs to its first await (create_subprocess_shell, or the
\* provider) before the next one starts and before any of them resumes, so
\* every _prepare_environment of the entry reads the store that no task of
\* the entry has reloaded yet; the first of them makes the file.
Launch ==
    /\ pc = "loop"
    /\ Parallel(matching_groups[gi])
    /\ LET hooks == matching_groups[gi]["hooks"]
       IN  \E spawn_ok \in [DOMAIN hooks -> BOOLEAN],
              providers \in [DOMAIN hooks -> {"raises", "empty", "provider"}] :
            LET started == [i \in DOMAIN hooks |->
                                StartHook(hooks[i], spawn_ok[i], providers[i])]
                finished == {i \in DOMAIN hooks : started[i].st = "done"}
                executing == SelectSeq([i \in DOMAIN hooks |-> i],
                                       LAMBDA i : UsesExecutor(hooks[i]))
            IN  /\ tasks' = started
                /\ executed' = executed \o
                        [k \in DOMAIN executing |->
                            Execution(<<gi, executing[k]>>, hooks[executing[k]],
                                      _prepare_environment(
                                          IF k = 1 THEN executor
                                          ELSE _get_env_file(executor),
                                          environ))]
                /\ invoked' = invoked \o [i \in DOMAIN hooks |-> <<gi, i>>]
                /\ outcomes' = [p \in {<<gi, i>> : i \in finished} |->
                                    Outcome(started[p[2]])] @@ outcomes
                /\ IF \E i \in DOMAIN hooks : UsesExecutor(hooks[i])
                   THEN Prepare
                   ELSE UNCHANGED <<executor, files, ntemp, prepared>>
    /\ pc' = "gather"
    /\ UNCHANGED <<gi, hi, result>>
    /\ UNCHANGED <<enabled, coordinator, matcher_groups, skill_scoped_hooks,
                   skill_matcher_groups>>
    /\ UNCHANGED <<amplifier_event, data, matching_groups, claude_data>>
    /\ UNCHANGED <<sources, ndispatch, nskillops, skill_history>>
    /\ UNCHANGED translator_vars
    /\ UNCHANGED <<host_vars, matcher_vars, prompt_vars>>
    /\ UNCHANGED <<environ, calls, last_op, nexec>>

(***************************************************************************)
(* The awaited work completes                                              *)
(***************************************************************************)
Awaiting(i, wait) ==
    /\ pc \in {"await", "gather"}
    /\ i \in DOMAIN tasks
    /\ tasks[i].st = "running"
    /\ tasks[i].wait = wait

\* task i of the current entry is done; a sequential entry goes on at once
Finish(i, task) ==
    /\ tasks' = [tasks EXCEPT ![i] = task]
    /\ outcomes' = (<<gi, i>> :> Outcome(task)) @@ outcomes
    /\ IF pc = "gather"
       THEN UNCHANGED <<pc, gi, hi, result>>
       ELSE SeqContinue(task.res)
    /\ executor' = IF task.how \in {"exit", "timeout", "io_error"}
                   THEN _load_persisted_env(executor, files)
                   ELSE executor
    /\ UNCHANGED <<enabled, coordinator, matcher_groups, skill_scoped_hooks,
                   skill_matcher_groups>>
    /\ UNCHANGED <<amplifier_event, data, matching_groups, claude_data>>
    /\ UNCHANGED <<sources, invoked, ndispatch, nskillops, executed,
                   skill_history>>
    /\ UNCHANGED translator_vars
    /\ UNCHANGED <<host_vars, matcher_vars>>
    /\ UNCHANGED <<world_vars, executor_history>>

\* what _execute_single_hook makes of the tuple execute returned
Translated(how, proc, ret) ==
    [st |-> "done", wait |-> "none", proc |-> proc, timeout |-> 0,
     how |-> how, ret |-> ret,
     res |-> from_claude_response(ret.code, ret.out, ret.err)]

\* execute: communicate() completes, the child has exited
ProcExits(i, output) ==
    /\ Awaiting(i, "proc")
    /\ Finish(i, Translated("exit", "exited", output))
    /\ UNCHANGED prompt_vars

\* execute: wait_for times out; proc.kill(), then await proc.wait()
Timeout(i) ==
    /\ Awaiting(i, "proc")
    /\ tasks' = [tasks EXCEPT ![i].proc = "killed", ![i].wait = "reap"]
    /\ UNCHANGED bridge_vars
    /\ UNCHANGED <<pc, amplifier_event, data, matching_groups, claude_data, gi,
                   hi, result>>
    /\ UNCHANGED history_vars
    /\ UNCHANGED translator_vars
    /\ UNCHANGED <<host_vars, matcher_vars, prompt_vars>>
    /\ UNCHANGED <<world_vars, executor_history>>

\* execute: the killed child is reaped, (1, "", "Hook timed out ...") returned
Reaped(i) ==
    /\ Awaiting(i, "reap")
    /\ Finish(i, Translated("timeout", "reaped", TimeoutReturn(tasks[i].timeout)))
    /\ UNCHANGED prompt_vars

\* execute: communicate() raises, (1, "", "Hook execution failed: ...") returned
CommunicateFails(i) ==
    /\ Awaiting(i, "proc")
    /\ Finish(i, Translated("io_error", tasks[i].proc, FailureReturn("Broken pipe")))
    /\ UNCHANGED prompt_vars

\* _execute_prompt_hook: provider.complete returns; response_text is the
\* reply, parsed what _parse_prompt_response made of it
ProviderAnswers(i, reply) ==
    /\ Awaiting(i, "provider")
    /\ Finish(i, IF reply.content = "empty"
                 THEN Done("empty_reply", EmptyResponse,
                           PromptResultFields(EmptyResponse))
                 ELSE Done("reply", _parse_prompt_response(reply),
                           PromptResultFields(_parse_prompt_response(reply))))
    /\ response_text' = reply
    /\ parsed' = IF reply.content = "empty"
                 THEN None
                 ELSE [value |-> _parse_prompt_response(reply)]

\* _execute_prompt_hook: provider.complete raises
ProviderRaises(i) ==
    /\ Awaiting(i, "provider")
    /\ Finish(i, Done("provider_error", ExecutionError,
                      PromptResultFields(ExecutionError)))
    /\ UNCHANGED prompt_vars

\* parallel entry: gather returns and the results are inspected in list order
Gather ==
    /\ pc = "gather"
    /\ AllDone(tasks)
    /\ LET results == [i \in DOMAIN tasks |-> tasks[i].res]
           b == FirstBlocking(results, 1)
       IN  IF b # 0
           THEN pc' = "returned" /\ result' = results[b] /\ UNCHANGED <<gi, hi>>
           ELSE Advance(gi)
    /\ UNCHANGED bridge_vars
    /\ UNCHANGED <<amplifier_event, data, matching_groups, claude_data, tasks>>
    /\ UNCHANGED history_vars
    /\ UNCHANGED translator_vars
    /\ UNCHANGED <<host_vars, matcher_vars, prompt_vars>>
    /\ UNCHANGED <<world_vars, executor_history>>

TaskIds == 1..4

Next ==
    \/ \E d \in BashSkillLoaded : on_skill_loaded(d)
    \/ \E d \in BashSkillUnloaded : on_skill_unloaded(d)
    \/ \E ev \in DispatchEvents, d \in DispatchData : Dispatch(ev, d)
    \/ Invoke
    \/ Launch
    \/ \E i \in TaskIds, output \in ProcOutputs : ProcExits(i, output)
    \/ \E i \in TaskIds : Timeout(i)
    \/ \E i \in TaskIds : Reaped(i)
    \/ \E i \in TaskIds : CommunicateFails(i)
    \/ \E i \in TaskIds, reply \in ProviderReplies : ProviderAnswers(i, reply)
    \/ \E i \in TaskIds : ProviderRaises(i)
    \/ Gather

Spec == Init /\ [][Next]_vars

(***************************************************************************)
(* The skill tables on their own: every notification, around dispatches of *)
(* one tool event over a one-entry base configuration                      *)
(***************************************************************************)
SkillsBase ==
    [PreToolUse |-> << [matcher |-> "Bash", hooks |-> <<Cmd("base.sh")>>] >>]

SkillsDispatchData == { [name |-> "Bash", session_id |-> "sess-1"] }

\* the handlers exit with 0 and no output, or with 2
SkillsProcOutputs == { o \in ProcOutputs : o.out = NoOutput \/ o.code = 2 }

InitSkills ==
    /\ enabled = TRUE
    /\ coordinator = "None"
    /\ matcher_groups = MatcherGroups(SkillsBase)
    /\ skill_scoped_hooks = <<>>
    /\ skill_matcher_groups = <<>>
    /\ executor = None
    /\ IdleCall
    /\ NoEvent
    /\ NoMatching
    /\ NoEvaluation
    /\ NoTranslation
    /\ environ = ParentEnv
    /\ NoExecution

NextSkills ==
    \/ \E d \in SkillLoadedData : on_skill_loaded(d)
    \/ \E d \in SkillUnloadedData : on_skill_unloaded(d)
    \/ \E d \in SkillsDispatchData : Dispatch("tool:pre", d)
    \/ Invoke
    \/ \E i \in TaskIds, output \in SkillsProcOutputs : ProcExits(i, output)

SpecSkills == InitSkills /\ [][NextSkills]_vars

(***************************************************************************)
(* The two skill tables under every notification, a configuration with an  *)
(* entry that is no mapping among them (YAML: a list item left empty)      *)
(***************************************************************************)
BrokenHooks ==
    [PreToolUse |->
        << [matcher |-> "Bash", hooks |-> <<Cmd("ok.sh")>>], None >>]

TablesLoadedData ==
    { [skill_name |-> n, hooks |-> h] :
        n \in SkillNames, h \in {CheckHooks, BrokenHooks} }
    \cup { [skill_name |-> "s1"] }

NextSkillTables ==
    \/ \E d \in TablesLoadedData : on_skill_loaded(d)
    \/ \E d \in SkillUnloadedData : on_skill_unloaded(d)

SpecSkillTables == InitSkills /\ [][NextSkillTables]_vars

(***************************************************************************)
(* The event handlers: session start and resume, tool events with the tool *)
(* name under either key, dispatch after dispatch on one bridge            *)
(***************************************************************************)
EventsBase ==
    [SessionStart |->
        << [matcher |-> "resume", hooks |-> <<Cmd("resume.sh")>>] >>,
     PreToolUse |->
        << [matcher |-> "Bash", hooks |-> <<Cmd("bash.sh")>>],
           [matcher |-> "Edit", hooks |-> <<>>],
           [matcher |-> "Edit|Write", parallel |-> TRUE,
            hooks |-> <<Cmd("edit.sh")>>],
           [matcher |-> "*", parallel |-> FALSE, hooks |-> <<Cmd("all.sh")>>] >>]

\* the events the host emits, each with the mapping it passes
EventsEmitted ==
    { Emitted("tool:pre", d) :
        d \in { [tool_name |-> "Bash", session_id |-> "sess-1"],
                [name |-> "bash", session_id |-> "sess-2"],
                [tool_name |-> "Edit", name |-> "Bash"],
                EmptyDict } }
    \cup { Emitted("session:start", d) :
        d \in { [trigger |-> "resume", session_id |-> "sess-2"],
                [trigger |-> "startup"],
                [session_id |-> "sess-1"] } }

ResumeData ==
    { [session_id |-> "sess-1"], [trigger |-> "startup", session_id |-> "sess-2"] }

\* the handlers exit with 0 and write nothing
QuietOutputs == { o \in ProcOutputs : o.code = 0 /\ o.out = NoOutput }

InitEvents ==
    /\ enabled = TRUE
    /\ coordinator = "None"
    /\ matcher_groups = MatcherGroups(EventsBase)
    /\ skill_scoped_hooks = <<>>
    /\ skill_matcher_groups = <<>>
    /\ executor = None
    /\ IdleCall
    /\ NoEvent
    /\ NoMatching
    /\ NoEvaluation
    /\ NoTranslation
    /\ environ = ParentEnv
    /\ NoExecution

\* on_tool_pre, on_session_start
on_event(e) ==
    /\ ndispatch < MaxEventDispatches
    /\ _execute_hooks(e.event, e.data)
    /\ emitted' = e
    /\ payload' = e.data

\* on_session_resume
on_session_resume(d) ==
    /\ ndispatch < MaxEventDispatches
    /\ _execute_hooks("session:resume", data_with_trigger(d))
    /\ emitted' = Emitted("session:resume", d)
    /\ payload' = d

NextEvents ==
    \/ \E e \in EventsEmitted : on_event(e)
    \/ \E d \in ResumeData : on_session_resume(d)
    \/ Invoke
    \/ Launch
    \/ \E i \in TaskIds, output \in QuietOutputs : ProcExits(i, output)
    \/ Gather

SpecEvents == InitEvents /\ [][NextEvents]_vars

(***************************************************************************)
(* Prompt hooks in a sequential entry, with and without a coordinator      *)
(***************************************************************************)
PromptBase ==
    [PreToolUse |->
        << [matcher |-> "*",
            hooks |-> <<Prompt("Is it safe?"), Cmd("after.sh")>>],
           [matcher |-> "Edit",
            hooks |-> <<[type |-> "command"], [type |-> "prompt"],
                        [type |-> "http"], Cmd("last.sh")>>] >>]

PromptEmitted ==
    { Emitted("tool:pre", d) :
        d \in { [tool_name |-> "Bash", session_id |-> "sess-1"],
                [tool_name |-> "Edit"] } }

\* what the command hooks of PromptBase print: nothing, or an approval with
\* a message for the user
MessageOutputs ==
    QuietOutputs
    \cup { [code |-> 0,
            out |-> [kind |-> "json",
                     value |-> JObj([decision |-> APPROVE,
                                     systemMessage |-> JStr(<<"Note">>)])],
            err |-> <<>>] }

InitPrompt ==
    /\ enabled = TRUE
    /\ coordinator \in {"coordinator", "None"}
    /\ matcher_groups = MatcherGroups(PromptBase)
    /\ skill_scoped_hooks = <<>>
    /\ skill_matcher_groups = <<>>
    /\ executor = None
    /\ IdleCall
    /\ NoEvent
    /\ NoMatching
    /\ NoEvaluation
    /\ NoTranslation
    /\ environ = ParentEnv
    /\ NoExecution

NextPrompt ==
    \/ \E e \in PromptEmitted : on_event(e)
    \/ Invoke
    \/ \E i \in TaskIds, reply \in ProviderReplies : ProviderAnswers(i, reply)
    \/ \E i \in TaskIds : ProviderRaises(i)
    \/ \E i \in TaskIds, output \in MessageOutputs : ProcExits(i, output)

SpecPrompt == InitPrompt /\ [][NextPrompt]_vars

(***************************************************************************)
(* _parse_prompt_response on its own: every kind of ok value               *)
(***************************************************************************)
\* the values of the ok field of a reply
OkValues ==
    { JBool(TRUE), JBool(FALSE), JStr(<<>>), JNum(0), JNum(1), JNum(2), JNull,
      JArr(<<>>), JArr(<<JBool(FALSE)>>) }
    \cup { JStr(<<word>>) :
            word \in {"true", "yes", "1", "ok", "YES", "True", "OK", "false",
                      "no", "0", "maybe"} }

\* the texts a provider may reply: a JSON object with an ok field, with or
\* without a reason, a JSON object without an ok field, no JSON object
ParseReplies ==
    { [content |-> "text", json |-> object,
       negative |-> FALSE, starts_no |-> FALSE, positive |-> positive] :
        object \in { [ok |-> v] : v \in OkValues }
                   \cup { [ok |-> v, reason |-> JStr(<<"why">>)] : v \in OkValues }
                   \cup { EmptyDict, [reason |-> JStr(<<"why">>)] },
        positive \in BOOLEAN }
    \cup { [content |-> "text", json |-> None,
            negative |-> negative, starts_no |-> starts_no,
            positive |-> positive] :
            negative \in BOOLEAN, starts_no \in BOOLEAN, positive \in BOOLEAN }

InitParse ==
    /\ enabled = TRUE
    /\ coordinator = "None"
    /\ matcher_groups = EmptyDict
    /\ skill_scoped_hooks = <<>>
    /\ skill_matcher_groups = <<>>
    /\ executor = None
    /\ IdleCall
    /\ NoEvent
    /\ NoMatching
    /\ NoTranslation
    /\ environ = ParentEnv
    /\ NoExecution
    /\ response_text \in ParseReplies
    /\ parsed = None

\* _parse_prompt_response(response_text)
Parse ==
    /\ IsNone(parsed)
    /\ parsed' = [value |-> _parse_prompt_response(response_text)]
    /\ UNCHANGED response_text
    /\ UNCHANGED <<bridge_vars, call_vars, history_vars, translator_vars>>
    /\ UNCHANGED <<world_vars, executor_history, host_vars, matcher_vars>>

NextParse == Parse

SpecParse == InitParse /\ [][NextParse]_vars

(***************************************************************************)
(* Command hooks whose processes may never exit: the timer of wait_for     *)
(* fires and the killed child is reaped, the event loop runs what is ready *)
(***************************************************************************)
TimeoutsBase ==
    [PreToolUse |->
        << [matcher |-> "*", hooks |-> <<CmdT("slow.sh", 5), Cmd("next.sh")>>],
           [matcher |-> "*", parallel |-> TRUE,
            hooks |-> <<CmdT("a.sh", 5), Cmd("b.sh")>>] >>]

TimeoutsEmitted ==
    { Emitted("tool:pre", d) :
        d \in { [tool_name |-> "Bash", session_id |-> "sess-1"],
                [name |-> "Edit"] } }

InitTimeouts ==
    /\ enabled = TRUE
    /\ coordinator = "None"
    /\ matcher_groups = MatcherGroups(TimeoutsBase)
    /\ skill_scoped_hooks = <<>>
    /\ skill_matcher_groups = <<>>
    /\ executor = None
    /\ IdleCall
    /\ NoEvent
    /\ NoMatching
    /\ NoEvaluation
    /\ NoTranslation
    /\ environ = ParentEnv
    /\ NoExecution

NextTimeouts ==
    \/ \E e \in TimeoutsEmitted : on_event(e)
    \/ Invoke
    \/ Launch
    \/ \E i \in TaskIds, output \in QuietOutputs : ProcExits(i, output)
    \/ \E i \in TaskIds : Timeout(i)
    \/ \E i \in TaskIds : Reaped(i)
    \/ \E i \in TaskIds : CommunicateFails(i)
    \/ Gather

\* the event loop runs a ready coroutine; asyncio.wait_for's timer fires when
\* communicate has not completed; a killed child is reaped.  Nothing makes a
\* child exit, nor the host emit an event.
FairTimeouts ==
    /\ WF_vars(Invoke)
    /\ WF_vars(Launch)
    /\ WF_vars(Gather)
    /\ \A i \in TaskIds : WF_vars(Timeout(i))
    /\ \A i \in TaskIds : WF_vars(Reaped(i))

SpecTimeouts == InitTimeouts /\ [][NextTimeouts]_vars /\ FairTimeouts

(***************************************************************************)
(* Command hooks that persist variables: a parallel entry and a sequential *)
(* entry after it, whose processes append to the file their environment    *)
(* names while they run                                                    *)
(***************************************************************************)
SharedEnvBase ==
    [PreToolUse |->
        << [matcher |-> "*", parallel |-> TRUE,
            hooks |-> <<Cmd("a.sh"), Cmd("b.sh")>>],
           [matcher |-> "*", hooks |-> <<Cmd("c.sh")>>] >>]

SharedEnvEmitted ==
    { Emitted("tool:pre", [name |-> "Bash", session_id |-> "sess-1"]) }

\* what a hook appends to the file
HookLines == { <<"FOO", "=", "a">>, <<"BAR", "=", "b">> }

\* the environment execute prepared for the hook at pos
EnvOf(pos) ==
    executed[CHOOSE k \in DOMAIN executed : executed[k].pos = pos].env

\* the process of task i appends a line to the file its environment names;
\* a killed process writes nothing
HookWrites(i, line) ==
    /\ Awaiting(i, "proc")
    /\ tasks[i].proc = "running"
    /\ LET path == EnvOf(<<gi, i>>)[<<"AMPLIFIER_ENV_FILE">>]
           old == IF path \in DOMAIN files THEN files[path] ELSE <<>>
       IN  /\ Cardinality({j \in DOMAIN old : old[j] = "\n"}) < MaxHookWrites
           /\ files' = (path :> (old \o line \o <<"\n">>)) @@ files
    /\ UNCHANGED bridge_vars
    /\ UNCHANGED call_vars
    /\ UNCHANGED history_vars
    /\ UNCHANGED translator_vars
    /\ UNCHANGED <<host_vars, matcher_vars, prompt_vars>>
    /\ UNCHANGED <<environ, ntemp, calls, executor_history>>

InitSharedEnv ==
    /\ enabled = TRUE
    /\ coordinator = "None"
    /\ matcher_groups = MatcherGroups(SharedEnvBase)
    /\ skill_scoped_hooks = <<>>
    /\ skill_matcher_groups = <<>>
    /\ executor = None
    /\ IdleCall
    /\ NoEvent
    /\ NoMatching
    /\ NoEvaluation
    /\ NoTranslation
    /\ environ = ParentEnv
    /\ NoExecution

NextSharedEnv ==
    \/ \E e \in SharedEnvEmitted : on_event(e)
    \/ Invoke
    \/ Launch
    \/ \E i \in TaskIds, line \in HookLines : HookWrites(i, line)
    \/ \E i \in TaskIds, output \in QuietOutputs : ProcExits(i, output)
    \/ Gather

SpecSharedEnv == InitSharedEnv /\ [][NextSharedEnv]_vars

(***************************************************************************)
(* HookMatcher on its own: every short pattern against every short target, *)
(* and the patterns of the tests                                           *)
(***************************************************************************)
PatternSymbols == {"Bash", ".", "*", "|", "(", ")"}
TargetSymbols == {"Bash", "bash", "*"}

TestPatterns ==
    { <<"Notebook", ".", "*">>, <<"Notebook", ".", "+">>, <<"Edit", "|", "Write">> }
TestTargets ==
    { <<"Notebook">>, <<"Notebook", "Create">>, <<"Edit">>, <<"Write">>,
      <<"Read">>, <<"Bash", "Tool">> }

InitMatcher ==
    /\ enabled = TRUE
    /\ coordinator = "None"
    /\ matcher_groups = EmptyDict
    /\ skill_scoped_hooks = <<>>
    /\ skill_matcher_groups = <<>>
    /\ executor = None
    /\ IdleCall
    /\ NoEvent
    /\ NoEvaluation
    /\ NoTranslation
    /\ environ = ParentEnv
    /\ NoExecution
    /\ matcher_pattern \in SeqsUpTo(PatternSymbols, MaxPatternLen) \cup TestPatterns
    /\ matcher_target \in SeqsUpTo(TargetSymbols, MaxTargetLen) \cup TestTargets
    /\ matched = None

\* HookMatcher(pattern).matches(tool_name)
Match ==
    /\ IsNone(matched)
    /\ matched' = [value |-> HookMatcher_matches(HookMatcher(matcher_pattern),
                                                 matcher_target)]
    /\ UNCHANGED <<matcher_pattern, matcher_target>>
    /\ UNCHANGED <<bridge_vars, call_vars, history_vars, translator_vars>>
    /\ UNCHANGED <<world_vars, executor_history, host_vars, prompt_vars>>

NextMatcher == Match

SpecMatcher == InitMatcher /\ [][NextMatcher]_vars

(***************************************************************************)
(* from_claude_response on its own: every exit code, output and error text *)
(***************************************************************************)
ExitCodes == {0, 1, 2, 127}

JsonFieldValues == {JStr(<<"text">>), JStr(<<>>), JNull}

\* the objects over the five fields of the decision protocol
JsonObjects ==
    { f \in UNION { [K -> {BLOCK, APPROVE} \cup JsonFieldValues] :
                      K \in SUBSET {"decision", "reason", "systemMessage",
                                    "contextInjection", "newContent"} } :
        /\ \A k \in DOMAIN f \ {"decision"} : f[k] \in JsonFieldValues
        /\ \A k \in DOMAIN f \cap {"reason", "systemMessage"} : f[k] # JNull }

Stdouts ==
    { [kind |-> "ws", text |-> <<>>], [kind |-> "ws", text |-> <<" ", "\n">>],
      [kind |-> "text"] }
    \cup { [kind |-> "json", value |-> j] :
             j \in {JNum(1), JStr(<<"text">>), JArr(<<>>), JNull, JBool(TRUE)} }
    \cup { [kind |-> "json", value |-> JObj(f)] : f \in JsonObjects }

Stderrs == SeqsUpTo({" ", "e"}, MaxStderrLen)

InitTranslator ==
    /\ enabled = TRUE
    /\ coordinator = "None"
    /\ matcher_groups = EmptyDict
    /\ skill_scoped_hooks = <<>>
    /\ skill_matcher_groups = <<>>
    /\ executor = None
    /\ IdleCall
    /\ NoEvent
    /\ NoMatching
    /\ NoEvaluation
    /\ exit_code \in ExitCodes
    /\ stdout \in Stdouts
    /\ stderr \in Stderrs
    /\ result_fields = None
    /\ environ = ParentEnv
    /\ NoExecution

\* result_fields = translator.from_claude_response(exit_code, stdout, stderr)
Translate ==
    /\ IsNone(result_fields)
    /\ result_fields' = from_claude_response(exit_code, stdout, stderr)
    /\ UNCHANGED <<exit_code, stdout, stderr>>
    /\ UNCHANGED <<bridge_vars, call_vars, history_vars>>
    /\ UNCHANGED <<world_vars, executor_history>>
    /\ UNCHANGED <<host_vars, matcher_vars, prompt_vars>>

NextTranslator == Translate

SpecTranslator == InitTranslator /\ [][NextTranslator]_vars

(***************************************************************************)
(* _load_persisted_env on its own: every short text as the file, and the   *)
(* files made of the lines the tests write                                 *)
(***************************************************************************)
EnvTokens == {"export", " ", "=", "#", "\"", "'", "\n", "A", "b"}

EnvLines ==
    { <<"export", " ", "FOO", "=", "bar">>,
      <<"BAZ", "=", "\"", "a", " ", "b", "\"">>,
      <<"SINGLE", "=", "'", "test", " ", "value", "'">>,
      <<"#", " ", "This is a comment">>,
      <<>>,
      <<"FOO", "=", "new">>,
      <<" ", "FOO", " ", "=", " ", "x", " ">>,
      <<"export", " ", "KEPT">>,
      <<"A", "=", "b", "=", "c">>,
      <<"Q", "=", "\"", "\"", "x", "\"", "\"">> }

\* the text of a file with these lines
RECURSIVE Text(_)
Text(lines) ==
    IF lines = <<>> THEN <<>> ELSE Head(lines) \o <<"\n">> \o Text(Tail(lines))

EnvFiles ==
    SeqsUpTo(EnvTokens, MaxEnvTokens)
    \cup { Text(lines) : lines \in SeqsUpTo(EnvLines, MaxEnvLines) }

\* what the store holds from earlier reloads
EnvStores ==
    { EmptyEnv,
      (<<"FOO">> :> <<"old">>) @@ (<<"A">> :> <<"old">>)
        @@ (<<"KEPT">> :> <<"kept">>) }

InitEnvFile ==
    /\ enabled = TRUE
    /\ coordinator = "None"
    /\ matcher_groups = EmptyDict
    /\ skill_scoped_hooks = <<>>
    /\ skill_matcher_groups = <<>>
    /\ IdleCall
    /\ NoEvent
    /\ NoMatching
    /\ NoEvaluation
    /\ NoTranslation
    /\ environ = ParentEnv
    /\ \E store \in EnvStores :
          executor = [session_id |-> "sess-1",
                      _env_file |-> [path |-> mkstemp("sess-1", 1)],
                      _persisted_env |-> store]
    /\ \E content \in EnvFiles : files = (mkstemp("sess-1", 1) :> content)
    /\ ntemp = 1
    /\ calls = <<>>
    /\ prepared = None
    /\ last_op = None
    /\ nexec = 0

\* self._load_persisted_env()
Reload ==
    /\ IsNone(last_op)
    /\ executor' = _load_persisted_env(executor, files)
    /\ last_op' = [op |-> "reload", executor |-> executor]
    /\ UNCHANGED <<enabled, coordinator, matcher_groups, skill_scoped_hooks,
                   skill_matcher_groups>>
    /\ UNCHANGED <<call_vars, history_vars, translator_vars, world_vars>>
    /\ UNCHANGED <<prepared, nexec>>
    /\ UNCHANGED <<host_vars, matcher_vars, prompt_vars>>

NextEnvFile == Reload

SpecEnvFile == InitEnvFile /\ [][NextEnvFile]_vars

(***************************************************************************)
(* HookExecutor driven directly, as the tests drive it: execute calls that *)
(* overlap at their awaits, the children writing to the environment file,  *)
(* cleanup                                                                 *)
(***************************************************************************)
\* os.environ of a parent process that was itself started with a project
\* directory variable
NestedEnv == ParentEnv @@ (<<"AMPLIFIER_PROJECT_DIR">> :> <<"/elsewhere">>)

\* what a hook appends to the file named by its AMPLIFIER_ENV_FILE: a
\* variable of its own, or three that the executor or the parent also set
ChildLines ==
    { <<"export", " ", "FOO", "=", "bar">>,
      <<"PATH", "=", "/opt/bin", "\n",
        "AMPLIFIER_SESSION_ID", "=", "other", "\n",
        "AMPLIFIER_ENV_FILE", "=", "/tmp/mine.env">> }

InitExecutor ==
    /\ enabled = TRUE
    /\ coordinator = "None"
    /\ matcher_groups = EmptyDict
    /\ skill_scoped_hooks = <<>>
    /\ skill_matcher_groups = <<>>
    /\ executor = HookExecutor("sess-1")
    /\ IdleCall
    /\ NoEvent
    /\ NoMatching
    /\ NoEvaluation
    /\ NoTranslation
    /\ environ = NestedEnv
    /\ NoExecution

\* an execute call between create_subprocess_shell and its return
Call(id, env) == [id |-> id, env |-> env, wrote |-> 0]

CallIds == DOMAIN calls

WithoutCall(i) == [k \in 1..(Len(calls) - 1) |-> IF k < i THEN calls[k] ELSE calls[k + 1]]

\* the file of the executor as execute leaves it when it ends
FileAtReturn(ex, fs) ==
    IF IsNone(ex._env_file) THEN None
    ELSE IF ex._env_file.path \notin DOMAIN fs THEN None
    ELSE [content |-> fs[ex._env_file.path]]

LastReturned == IF IsNone(last_op) THEN None ELSE last_op.returned

Ended(outcome, ex, fs) ==
    [op |-> "execute", outcome |-> outcome, returned |-> FileAtReturn(ex, fs)]

UnchangedBridge ==
    /\ UNCHANGED <<enabled, coordinator, matcher_groups, skill_scoped_hooks,
                   skill_matcher_groups>>
    /\ UNCHANGED <<call_vars, history_vars, translator_vars, environ>>
    /\ UNCHANGED <<host_vars, matcher_vars, prompt_vars>>

\* execute up to create_subprocess_shell: the environment is prepared, the
\* process is spawned or the spawn raises, and then nothing of execute runs
Execute(spawned) ==
    /\ nexec < MaxExecutes
    /\ nexec' = nexec + 1
    /\ Prepare
    /\ IF spawned
       THEN /\ calls' = Append(calls, Call(nexec + 1, prepared'.env))
            /\ last_op' = [op |-> "spawn", outcome |-> "running",
                           returned |-> LastReturned]
       ELSE /\ calls' = calls
            /\ last_op' = Ended("spawn_error", _get_env_file(executor),
                                 EnvFileMade(executor, files))
    /\ UnchangedBridge

\* the hook appends a line to the file its environment names
ChildWrites(i, line) ==
    /\ calls[i].wrote < MaxChildWrites
    /\ LET path == calls[i].env[<<"AMPLIFIER_ENV_FILE">>]
           old == IF path \in DOMAIN files THEN files[path] ELSE <<>>
       IN  files' = (path :> (old \o line \o <<"\n">>)) @@ files
    /\ calls' = [calls EXCEPT ![i].wrote = @ + 1]
    /\ last_op' = [op |-> "write", outcome |-> "running", returned |-> LastReturned]
    /\ UnchangedBridge
    /\ UNCHANGED <<executor, ntemp, prepared, nexec>>

\* execute from the return of communicate (or from an exception in it) to
\* its own return: the finally clause reloads.  On a timeout the process is
\* killed and reaped first; it writes nothing after the kill.
ExecuteEnds(i, outcome) ==
    /\ executor' = _load_persisted_env(executor, files)
    /\ calls' = WithoutCall(i)
    /\ last_op' = Ended(outcome, _load_persisted_env(executor, files), files)
    /\ UnchangedBridge
    /\ UNCHANGED <<files, ntemp, prepared, nexec>>

\* HookExecutor.cleanup, whenever the test (or another task) calls it
Cleanup ==
    /\ LET after == cleanup(executor, files)
       IN  /\ executor' = after.executor
           /\ files' = after.files
    /\ last_op' = [op |-> "cleanup", outcome |-> "returned",
                   returned |-> LastReturned,
                   before |-> [executor |-> executor, files |-> files]]
    /\ UnchangedBridge
    /\ UNCHANGED <<ntemp, calls, prepared, nexec>>

NextExecutor ==
    \/ Execute(TRUE)
    \/ Execute(FALSE)
    \/ \E i \in CallIds, line \in ChildLines : ChildWrites(i, line)
    \/ \E i \in CallIds : ExecuteEnds(i, "exit")
    \/ \E i \in CallIds : ExecuteEnds(i, "exit_nonzero")
    \/ \E i \in CallIds : ExecuteEnds(i, "timeout")
    \/ \E i \in CallIds : ExecuteEnds(i, "io_error")
    \/ Cleanup

SpecExecutor == InitExecutor /\ [][NextExecutor]_vars

(***************************************************************************)
(* Properties                                                              *)
(***************************************************************************)
BlockingActions == {"deny", "modify", "inject_context"}

Returned == pc = "returned"

\* the handler at position p = <<entry, handler>> has finished
Finished(p) == p \in DOMAIN outcomes

\* ... and did not raise
Yielded(p) == Finished(p) /\ ~IsException(outcomes[p].res)

\* ... and yielded a blocking decision
Produced(p) == Yielded(p) /\ outcomes[p].res["action"] \in BlockingActions

Raised(p) == Finished(p) /\ IsException(outcomes[p].res)

\* how often the handler at p was invoked in this dispatch
Invocations(p) == Cardinality({k \in DOMAIN invoked : invoked[k] = p})

Entries == DOMAIN matching_groups
HooksOf(g) == DOMAIN matching_groups[g]["hooks"]
IsParallel(g) == "parallel" \in DOMAIN matching_groups[g] /\ matching_groups[g]["parallel"]

\* the dispatch is done with entry g: it moved past it or returned from it
Left(g) == g < gi \/ (pc \in {"returned", "raised"} /\ g = gi)

\* C1: in a sequential entry the handlers run one at a time in list order,
\* and the first blocking decision (deny, modify, inject_context) is returned
\* at once: no later handler of the entry is invoked.
C1_SequentialStopsAtFirstBlocking ==
    \A g \in Entries : ~IsParallel(g) =>
        /\ \A h \in HooksOf(g) : Invocations(<<g, h>>) <= 1
        /\ \A h \in HooksOf(g) : Invocations(<<g, h>>) = 1 =>
              \A h0 \in HooksOf(g) : h0 < h =>
                  /\ Finished(<<g, h0>>)
                  /\ \E k0, k \in DOMAIN invoked :
                        k0 < k /\ invoked[k0] = <<g, h0>> /\ invoked[k] = <<g, h>>
        /\ \A h \in HooksOf(g) : Produced(<<g, h>>) =>
              /\ Returned
              /\ result = outcomes[<<g, h>>].res
              /\ \A h1 \in HooksOf(g) : h1 > h => Invocations(<<g, h1>>) = 0

C1_Witness ==
    /\ Returned
    /\ gi \in Entries
    /\ ~IsParallel(gi)
    /\ Len(matching_groups[gi]["hooks"]) >= 2
    /\ Produced(<<gi, 1>>)
    /\ result["action"] = "deny"
    /\ Invocations(<<gi, 1>>) = 1
    /\ Invocations(<<gi, 2>>) = 0

\* C2: once a handler has produced a blocking decision, no handler of a
\* later entry (so of no later group or configuration source) is invoked, the
\* dispatch is returning from that entry, and what it returns is a blocking
\* decision that a handler of that entry produced.
C2_BlockingDecisionEndsDispatch ==
    \A p \in DOMAIN outcomes : Produced(p) =>
        /\ \A k \in DOMAIN invoked : invoked[k][1] <= p[1]
        /\ gi = p[1]
        /\ pc \in {"gather", "returned"}
        /\ Returned =>
              \E q \in DOMAIN outcomes :
                  q[1] = p[1] /\ Produced(q) /\ result = outcomes[q].res

C2_Witness ==
    /\ Returned
    /\ \E p \in DOMAIN outcomes :
          /\ Produced(p)
          /\ result = outcomes[p].res
          /\ p[1] < Len(matching_groups)
          /\ sources[p[1]] = "base"
    /\ sources[Len(sources)] # "base"

\* an explicit denial: a process that exited with code 2 or printed a JSON
\* object with decision "block", or a prompt evaluated to ok = false
ExplicitDenial(o) ==
    \/ /\ o.how = "exit"
       /\ \/ o.ret.code = 2
          \/ /\ o.ret.out.kind = "json"
             /\ o.ret.out.value.t = "obj"
             /\ "decision" \in DOMAIN o.ret.out.value.v
             /\ o.ret.out.value.v["decision"] = BLOCK
    \/ /\ o.how = "reply"
       /\ ~o.ret.ok

\* the failures that must not deny
FailureKinds ==
    {"timeout", "io_error", "spawn_error", "no_coordinator",
     "provider_access_failed", "no_providers", "provider_error", "empty_reply"}

Denies(res) == ~IsException(res) /\ res["action"] = "deny"

\* C3: fail open.  A dispatch returns deny only if a handler it invoked
\* signalled denial explicitly, and that handler's decision is what it
\* returns; a timeout, a spawn or I/O error, malformed output, a missing
\* provider or a provider error never yields deny.
C3_DenyOnlyWhenExplicit ==
    /\ (Returned /\ Denies(result)) =>
          \E p \in DOMAIN outcomes :
              ExplicitDenial(outcomes[p]) /\ result = outcomes[p].res
    /\ \A p \in DOMAIN outcomes :
          (outcomes[p].how \in FailureKinds \/ ~ExplicitDenial(outcomes[p]))
              => ~Denies(outcomes[p].res)

C3_Witness ==
    /\ Returned
    /\ Denies(result)
    /\ \E p \in DOMAIN outcomes :
          outcomes[p].how \in FailureKinds /\ ~Denies(outcomes[p].res)
    /\ \E p \in DOMAIN outcomes :
          ExplicitDenial(outcomes[p]) /\ result = outcomes[p].res

\* C4: in a parallel entry a handler that raises is left out of the
\* aggregation: the exception does not leave the dispatch, every sibling still
\* finishes, a sibling's deny is returned, and when every handler raised the
\* dispatch goes on to the next entry.
C4_ParallelExceptionNotFatal ==
    /\ pc = "raised" => ~IsParallel(gi)
    /\ \A g \in Entries :
          (IsParallel(g) /\ Left(g) /\ \E h \in HooksOf(g) : Raised(<<g, h>>)) =>
              /\ \A h \in HooksOf(g) : Finished(<<g, h>>)
              /\ (/\ \E h \in HooksOf(g) : Denies(outcomes[<<g, h>>].res)
                  /\ \A h \in HooksOf(g) :
                        Produced(<<g, h>>) => Denies(outcomes[<<g, h>>].res))
                    => /\ Returned
                       /\ gi = g
                       /\ Denies(result)
                       /\ \E h \in HooksOf(g) : result = outcomes[<<g, h>>].res
              /\ (\A h \in HooksOf(g) : Raised(<<g, h>>))
                    => /\ gi > g
                       /\ (g < Len(matching_groups) /\ pc # "loop")
                             => Invocations(<<g + 1, 1>>) = 1
                       /\ (g = Len(matching_groups))
                             => (Returned /\ result = CONTINUE)

C4_Witness ==
    /\ Returned
    /\ gi \in Entries
    /\ IsParallel(gi)
    /\ Raised(<<gi, 1>>)
    /\ Yielded(<<gi, 2>>)
    /\ Denies(outcomes[<<gi, 2>>].res)
    /\ result = outcomes[<<gi, 2>>].res

\* C5: every handler of a parallel entry is launched, and has finished or
\* failed before the results are looked at: the dispatch does not leave a
\* parallel entry while one of its handlers runs, and each handler of the
\* entry is invoked exactly once, also when a sibling blocks.
C5_ParallelWaitsForAll ==
    /\ \A g \in Entries :
          (IsParallel(g) /\ (Left(g) \/ (g = gi /\ pc = "gather"))) =>
              \A h \in HooksOf(g) : Invocations(<<g, h>>) = 1
    /\ \A g \in Entries :
          (IsParallel(g) /\ Left(g)) =>
              \A h \in HooksOf(g) : Finished(<<g, h>>)
    /\ (Returned /\ gi \in Entries /\ IsParallel(gi)) =>
          \A i \in DOMAIN tasks : tasks[i].st = "done"

C5_Witness ==
    /\ Returned
    /\ gi \in Entries
    /\ IsParallel(gi)
    /\ Produced(<<gi, 1>>)
    /\ result = outcomes[<<gi, 1>>].res
    /\ Finished(<<gi, 2>>)
    /\ outcomes[<<gi, 2>>].how \in {"exit", "timeout", "reply"}
    /\ Invocations(<<gi, 2>>) = 1

\* C6: a process handler that runs into its timeout is killed and reaped,
\* execute returns exit code 1, no output and a "timed out" message, the
\* handler counts as continue, and a dispatch whose only handler timed out
\* returns continue.
C6_TimeoutFailsOpen ==
    /\ \A i \in DOMAIN tasks :
          (tasks[i].st = "running" /\ tasks[i].proc = "killed") =>
              tasks[i].wait = "reap"
    /\ \A p \in DOMAIN outcomes : outcomes[p].how = "timeout" =>
          /\ outcomes[p].proc = "reaped"
          /\ outcomes[p].ret.code = 1
          /\ outcomes[p].ret.out = [kind |-> "ws", text |-> <<>>]
          /\ \E k \in DOMAIN outcomes[p].ret.err :
                outcomes[p].ret.err[k] = "timed out"
          /\ outcomes[p].res = CONTINUE
    /\ (/\ Returned
        /\ Len(invoked) = 1
        /\ Finished(invoked[1])
        /\ outcomes[invoked[1]].how = "timeout"
        /\ Len(matching_groups) = 1
        /\ Len(matching_groups[1]["hooks"]) = 1)
          => result = CONTINUE

C6_Witness ==
    /\ Returned
    /\ Len(matching_groups) = 1
    /\ Len(matching_groups[1]["hooks"]) = 1
    /\ Finished(<<1, 1>>)
    /\ outcomes[<<1, 1>>].how = "timeout"
    /\ outcomes[<<1, 1>>].proc = "reaped"
    /\ result = CONTINUE

\* C7 (as claimed): every failure of execute other than a timeout, a failure
\* to spawn the child included, comes back as (1, "", description); execute
\* never raises and the handler counts as continue.
C7_ExecuteNeverRaises ==
    \A p \in DOMAIN outcomes :
        outcomes[p].how \in {"io_error", "spawn_error"} =>
            /\ ~IsException(outcomes[p].ret)
            /\ outcomes[p].ret.code = 1
            /\ outcomes[p].ret.out = [kind |-> "ws", text |-> <<>>]
            /\ outcomes[p].res = CONTINUE

(***************************************************************************)
(* Properties of from_claude_response (SpecTranslator)                     *)
(***************************************************************************)
TranslationDone == ~IsNone(result_fields)

Blank(s) == \A k \in DOMAIN s : s[k] \in WS

\* t is s without its leading and trailing whitespace
IsTrimOf(t, s) ==
    /\ t # <<>> => (t[1] \notin WS /\ t[Len(t)] \notin WS)
    /\ \E a \in 0..Len(s) :
          /\ a + Len(t) <= Len(s)
          /\ \A k \in 1..a : s[k] \in WS
          /\ \A k \in 1..Len(t) : s[a + k] = t[k]
          /\ \A k \in (a + Len(t) + 1)..Len(s) : s[k] \in WS

\* C8: exit code 2 is deny whatever the standard output holds, with the
\* trimmed standard error as the reason, or the default message when the
\* standard error is blank.
C8_ExitCode2Denies ==
    (TranslationDone /\ exit_code = 2) =>
        /\ DOMAIN result_fields = {"action", "reason"}
        /\ result_fields["action"] = "deny"
        /\ result_fields["reason"].t = "str"
        /\ IF Blank(stderr)
           THEN result_fields["reason"].v = <<"Hook", " ", "blocked", " ", "operation">>
           ELSE IsTrimOf(result_fields["reason"].v, stderr)

C8_Witness ==
    /\ TranslationDone
    /\ exit_code = 2
    /\ stdout.kind = "json"
    /\ stdout.value = JObj([decision |-> APPROVE, newContent |-> JStr(<<"text">>)])
    /\ stderr = <<" ", "e">>
    /\ result_fields = [action |-> "deny", reason |-> JStr(<<"e">>)]

DecisionFields == {"decision", "contextInjection", "newContent"}

\* C9 (as claimed): the translation never raises; with an exit code other
\* than 2 and a standard output that is empty, not JSON, JSON but not an
\* object, or an object without decision fields, the result is continue.
C9_TranslationNeverRaises ==
    TranslationDone =>
        /\ ~IsException(result_fields)
        /\ (/\ exit_code # 2
            /\ \/ stdout.kind \in {"ws", "text"}
               \/ stdout.value.t # "obj"
               \/ DOMAIN stdout.value.v \cap DecisionFields = {})
              => result_fields["action"] = "continue"

\* C10: for a JSON object and an exit code other than 2 the fields are
\* applied in the order block > contextInjection > newContent > continue;
\* block passes reason and systemMessage through.
C10_FieldPrecedence ==
    (/\ TranslationDone
     /\ exit_code # 2
     /\ stdout.kind = "json"
     /\ stdout.value.t = "obj") =>
        LET f == stdout.value.v
            r == result_fields
        IN  /\ ~IsException(r)
            /\ IF "decision" \in DOMAIN f /\ f["decision"] = JStr(<<"block">>)
               THEN /\ r["action"] = "deny"
                    /\ "reason" \in DOMAIN f => r["reason"] = f["reason"]
                    /\ "systemMessage" \in DOMAIN f
                          => r["user_message"] = f["systemMessage"]
                    /\ "systemMessage" \notin DOMAIN f
                          => "user_message" \notin DOMAIN r
                    /\ DOMAIN r \subseteq {"action", "reason", "user_message"}
               ELSE IF "contextInjection" \in DOMAIN f
               THEN /\ r["action"] = "inject_context"
                    /\ r["context_injection"] = f["contextInjection"]
                    /\ "data" \notin DOMAIN r
               ELSE IF "newContent" \in DOMAIN f
               THEN /\ r["action"] = "modify"
                    /\ r["data"] = [modified_content |-> f["newContent"]]
               ELSE r["action"] = "continue"

C10_Witness ==
    /\ TranslationDone
    /\ exit_code = 0
    /\ stdout.kind = "json"
    /\ stdout.value.t = "obj"
    /\ DOMAIN stdout.value.v = {"decision", "contextInjection", "newContent"}
    /\ stdout.value.v["decision"] = APPROVE
    /\ result_fields["action"] = "inject_context"
    /\ result_fields["context_injection"] = stdout.value.v["contextInjection"]

(***************************************************************************)
(* Properties of the skill tables (SpecSkills)                             *)
(***************************************************************************)
\* _execute_hooks has collected the entries and has not called a handler yet
DispatchStarts == pc = "loop" /\ invoked = <<>>

\* the raw configuration an owner has in the table
Declared(owner) ==
    (CHOOSE e \in {skill_scoped_hooks[i] : i \in DOMAIN skill_scoped_hooks} :
        e.k = owner).v

\* the entries of a raw configuration that have handlers and match the target
MatchingEntries(config, claude_event, target) ==
    IF claude_event \in DOMAIN config
    THEN SelectSeq(config[claude_event],
                   LAMBDA mc : /\ get(mc, "hooks", <<>>) # <<>>
                               /\ matches(get(mc, "matcher", "*"), target))
    ELSE <<>>

\* the matching entries of the owners reg[i], reg[i+1], ..., owner after owner
RECURSIVE OwnerEntries(_, _, _, _)
OwnerEntries(reg, claude_event, target, i) ==
    IF i > Len(reg) THEN <<>>
    ELSE MatchingEntries(Declared(reg[i].owner), claude_event, target)
         \o OwnerEntries(reg, claude_event, target, i + 1)

RECURSIVE OwnerNames(_, _, _, _)
OwnerNames(reg, claude_event, target, i) ==
    IF i > Len(reg) THEN <<>>
    ELSE [j \in DOMAIN MatchingEntries(Declared(reg[i].owner), claude_event,
                                       target) |-> reg[i].owner]
         \o OwnerNames(reg, claude_event, target, i + 1)

Without(table, owner) == SelectSeq(table, LAMBDA e : e.k # owner)

Unloads(e, owner) ==
    /\ ~IsNone(e)
    /\ e.event = "skill:unloaded"
    /\ "skill_name" \in DOMAIN e.data
    /\ e.data["skill_name"] = owner

\* C12: once skill:unloaded was handled for an owner, and until the next
\* notification, neither table holds the owner and both hold the other owners
\* as before; a dispatch that starts has entries of the base configuration
\* and of registered owners only, and invokes handlers of those entries only.
C12_UnloadedOwnerGone ==
    /\ \A owner \in SkillNames : Unloads(skill_event, owner) =>
          /\ owner \notin DictKeys(skill_scoped_hooks)
          /\ owner \notin DictKeys(skill_matcher_groups)
          /\ skill_scoped_hooks = Without(skill_event.hooks_before, owner)
          /\ skill_matcher_groups = Without(skill_event.groups_before, owner)
    /\ DispatchStarts =>
          /\ \A g \in DOMAIN sources :
                sources[g] = "base" \/ sources[g] \in Owners(registered)
          /\ SelectSeq(matching_groups,
                       LAMBDA mc : \E g \in DOMAIN sources :
                                      sources[g] = "base" /\ matching_groups[g] = mc)
                = dir_groups_of(claude_event_of(amplifier_event),
                                match_target_of(claude_event_of(amplifier_event),
                                                data))
    /\ \A k \in DOMAIN invoked : invoked[k][1] \in DOMAIN sources

C12_Witness ==
    /\ Returned
    /\ result = CONTINUE
    /\ Unloads(skill_event, "s1")
    /\ DictKeys(skill_event.hooks_before) = {"s1", "s2"}
    /\ DictKeys(skill_matcher_groups) = {"s2"}
    /\ sources = <<"base", "s2">>
    /\ \A g \in Entries : Invocations(<<g, 1>>) = 1

\* the notification has no owner, or no configuration to register, or names
\* an owner that is not registered
Ignored(e) ==
    \/ /\ e.event = "skill:loaded"
       /\ \/ "skill_name" \notin DOMAIN e.data
          \/ "hooks" \notin DOMAIN e.data
          \/ e.data["hooks"] = EmptyDict
    \/ /\ e.event = "skill:unloaded"
       /\ \/ "skill_name" \notin DOMAIN e.data
          \/ /\ e.data["skill_name"] \notin DictKeys(e.hooks_before)
             /\ e.data["skill_name"] \notin DictKeys(e.groups_before)

\* C13: a skill:loaded without owner or without (or with an empty)
\* configuration, and a skill:unloaded without owner or for an owner that is
\* not registered, return continue, raise nothing and leave both tables as
\* they were.
C13_IgnoredNotificationsChangeNothing ==
    (~IsNone(skill_event) /\ Ignored(skill_event)) =>
        /\ skill_event.result = CONTINUE
        /\ skill_scoped_hooks = skill_event.hooks_before
        /\ skill_matcher_groups = skill_event.groups_before

C13_Witness ==
    /\ ~IsNone(skill_event)
    /\ skill_event.event = "skill:unloaded"
    /\ "skill_name" \in DOMAIN skill_event.data
    /\ skill_event.data["skill_name"] = "s2"
    /\ DictKeys(skill_event.hooks_before) = {"s1"}
    /\ skill_event.result = CONTINUE
    /\ skill_scoped_hooks = skill_event.hooks_before
    /\ skill_matcher_groups = skill_event.groups_before

\* the owner is registered and declared a directory
Anchored(owner) ==
    \E i \in DOMAIN registered :
        registered[i].owner = owner /\ registered[i].directory # <<>>

\* C14 (as claimed): a command hook of an owner that declared a directory is
\* never executed with a command that begins with ./ or ../, whether or not
\* the hook declares its type.
C14_RelativeCommandsResolved ==
    \A k \in DOMAIN executed :
        Anchored(sources[executed[k].pos[1]]) =>
            executed[k].command[1] \notin {"./", "../"}

(***************************************************************************)
(* Properties of the persisted environment (SpecEnvFile)                   *)
(***************************************************************************)
Min(S) == CHOOSE x \in S : \A y \in S : x <= y
Max(S) == CHOOSE x \in S : \A y \in S : x >= y

\* the text without the whitespace before its first and after its last
\* token that is not whitespace
TrimOf(s) ==
    LET solid == {i \in DOMAIN s : s[i] \notin WS}
    IN  IF solid = {} THEN <<>> ELSE SubSeq(s, Min(solid), Max(solid))

\* the lines of a text: the stretches between its line ends
LinesOf(s) ==
    LET ends == {i \in DOMAIN s : s[i] = "\n"} \cup {Len(s) + 1}
        nth(k) == CHOOSE i \in ends : Cardinality({j \in ends : j < i}) = k - 1
    IN  [k \in 1..Cardinality(ends) |->
            SubSeq(s, IF k = 1 THEN 1 ELSE nth(k - 1) + 1, nth(k) - 1)]

Quotes == {"\"", "'"}

\* The stated rule for one line: what the line contributes to the store.
RuleOfLine(raw) ==
    LET line == TrimOf(raw)
        rest == IF Len(line) >= 2 /\ line[1] = "export" /\ line[2] = " "
                THEN SubSeq(line, 3, Len(line)) ELSE line
        eqs == {i \in DOMAIN rest : rest[i] = "="}
    IN  IF line = <<>> \/ line[1] = "#" \/ eqs = {} THEN EmptyEnv
        ELSE LET key == TrimOf(SubSeq(rest, 1, Min(eqs) - 1))
                 val == TrimOf(SubSeq(rest, Min(eqs) + 1, Len(rest)))
                 wrapped == /\ Len(val) >= 2
                            /\ val[1] \in Quotes
                            /\ val[Len(val)] = val[1]
             IN  key :> (IF wrapped THEN SubSeq(val, 2, Len(val) - 1) ELSE val)

Reloaded == ~IsNone(last_op) /\ last_op.op = "reload"

TheFile == files[executor._env_file.path]

\* C18 (as claimed): a reload parses every line of the file by the stated
\* rule: after it, a key that some line defines by the rule holds the value
\* the rule gives for the last such line, and no other key has come or changed.
C18_ReloadFollowsTheRule ==
    Reloaded =>
        LET before == last_op.executor._persisted_env
            after == executor._persisted_env
            lines == LinesOf(TheFile)
            defining(key) == {k \in DOMAIN lines : key \in DOMAIN RuleOfLine(lines[k])}
            keys == UNION {DOMAIN RuleOfLine(lines[k]) : k \in DOMAIN lines}
        IN  /\ DOMAIN after = DOMAIN before \cup keys
            /\ \A key \in keys :
                  after[key] = RuleOfLine(lines[Max(defining(key))])[key]
            /\ \A key \in DOMAIN before \ keys : after[key] = before[key]

\* what the loader makes of one line, on its own
Defines(line) == load_line(EmptyEnv, line)

\* C19: the store is last-write-wins per key: after a reload a key defined
\* in the file holds the value of the last line that defines it, whatever the
\* store held, and a key the file does not define holds what it held.
C19_LastWriteWins ==
    Reloaded =>
        LET before == last_op.executor._persisted_env
            after == executor._persisted_env
            lines == LinesOf(TheFile)
            defining(key) == {k \in DOMAIN lines : key \in DOMAIN Defines(lines[k])}
            keys == UNION {DOMAIN Defines(lines[k]) : k \in DOMAIN lines}
        IN  /\ DOMAIN after = DOMAIN before \cup keys
            /\ \A key \in keys :
                  after[key] = Defines(lines[Max(defining(key))])[key]
            /\ \A key \in DOMAIN before \ keys : after[key] = before[key]

C19_Witness ==
    /\ Reloaded
    /\ TheFile = Text(<< <<"export", " ", "FOO", "=", "bar">>,
                         <<"FOO", "=", "new">> >>)
    /\ <<"FOO">> \in DOMAIN last_op.executor._persisted_env
    /\ last_op.executor._persisted_env[<<"FOO">>] = <<"old">>
    /\ executor._persisted_env[<<"FOO">>] = <<"new">>
    /\ executor._persisted_env[<<"KEPT">>] = <<"kept">>

(***************************************************************************)
(* Properties of the executor (SpecExecutor)                               *)
(***************************************************************************)
ExecuteEnded == ~IsNone(last_op) /\ last_op.op = "execute"

ExecuteBegan == ~IsNone(last_op) /\ last_op.op = "spawn"

\* the variables a text of the file defines, each with the value of the last
\* line that defines it
DefinedBy(content) ==
    LET lines == LinesOf(content)
        defining(key) == {k \in DOMAIN lines : key \in DOMAIN Defines(lines[k])}
        keys == UNION {DOMAIN Defines(lines[k]) : k \in DOMAIN lines}
    IN  [key \in keys |-> Defines(lines[Max(defining(key))])[key]]

\* d holds every pair of e
Holds(d, e) == \A key \in DOMAIN e : key \in DOMAIN d /\ d[key] = e[key]

\* C15 (as claimed): when an execute invocation has ended, however it ended,
\* the store holds every variable that the file of the executor defines at
\* that moment; and the environment prepared by an invocation that begins
\* holds every variable the file defined when the last invocation ended.
C15_ReloadAfterEveryExecute ==
    /\ (ExecuteEnded /\ ~IsNone(last_op.returned))
          => Holds(executor._persisted_env, DefinedBy(last_op.returned.content))
    /\ (ExecuteBegan /\ ~IsNone(last_op.returned))
          => Holds(prepared.env, DefinedBy(last_op.returned.content))

Primaries ==
    { <<"AMPLIFIER_PROJECT_DIR">>, <<"AMPLIFIER_HOOKS_DIR">>,
      <<"AMPLIFIER_SESSION_ID">>, <<"AMPLIFIER_ENV_FILE">> }

\* C16: the environment prepared for a child is the parent environment,
\* overlaid with the identity variables, then with the environment file
\* variables, then with the persisted store: a key of the store has the
\* persisted value whatever else sets it, an identity variable overrides an
\* inherited one.
C16_OverlayOrder ==
    ~IsNone(prepared) =>
        LET env == prepared.env
            store == prepared.executor._persisted_env
            file_vars == EnvFileVariables(prepared.executor)
            identity == IdentityVariables(prepared.executor)
            inherited == prepared.environ
        IN  /\ DOMAIN env = DOMAIN store \cup DOMAIN file_vars
                            \cup DOMAIN identity \cup DOMAIN inherited
            /\ \A key \in DOMAIN env :
                  env[key] = IF key \in DOMAIN store THEN store[key]
                             ELSE IF key \in DOMAIN file_vars THEN file_vars[key]
                             ELSE IF key \in DOMAIN identity THEN identity[key]
                             ELSE inherited[key]

C16_Witness ==
    /\ ~IsNone(prepared)
    /\ {<<"PATH">>, <<"AMPLIFIER_SESSION_ID">>, <<"AMPLIFIER_ENV_FILE">>}
          \subseteq DOMAIN prepared.executor._persisted_env
    /\ prepared.env[<<"PATH">>] = <<"/opt/bin">>
    /\ prepared.env[<<"AMPLIFIER_SESSION_ID">>] = <<"other">>
    /\ prepared.env[<<"AMPLIFIER_ENV_FILE">>] = <<"/tmp/mine.env">>
    /\ prepared.environ[<<"AMPLIFIER_PROJECT_DIR">>] = <<"/elsewhere">>
    /\ prepared.env[<<"AMPLIFIER_PROJECT_DIR">>] = PROJECT_DIR

\* C17 (as claimed): every prepared environment has the four contract
\* variables and, for each, an alias variable of its own, which has the value
\* of its primary when the persisted store is empty.
C17_EveryContractVariableHasAnAlias ==
    ~IsNone(prepared) =>
        LET env == prepared.env
            store == prepared.executor._persisted_env
        IN  /\ Primaries \subseteq DOMAIN env
            /\ \E alias \in [Primaries -> DOMAIN env \ Primaries] :
                  /\ \A p, q \in Primaries : alias[p] = alias[q] => p = q
                  /\ store = EmptyEnv =>
                        \A p \in Primaries : env[alias[p]] = env[p]

CleanedUp == ~IsNone(last_op) /\ last_op.op = "cleanup"

\* the executor names a file and the file is there
HasBackingFile(ex, fs) ==
    ~IsNone(ex._env_file) /\ ex._env_file.path \in DOMAIN fs

RECURSIVE Denotes(_, _)
RECURSIVE DenotesBranch(_, _)
RECURSIVE DenotesAtom(_, _)
RECURSIVE DenotesRepeated(_, _)

Denotes(p, t) == \E b \in branches(p) : DenotesBranch(b, t)

DenotesAtom(atom, u) ==
    IF atom[1] = "(" THEN Denotes(SubSeq(atom, 2, Len(atom) - 1), u)
    ELSE /\ Len(u) = 1
         /\ IF atom[1] = "." THEN u[1] # "\n" ELSE lower(u[1]) = lower(atom[1])

\* u is made of zero or more words of the atom
DenotesRepeated(atom, u) ==
    \/ u = <<>>
    \/ \E n \in 1..Len(u) :
          /\ DenotesAtom(atom, SubSeq(u, 1, n))
          /\ DenotesRepeated(atom, SubSeq(u, n + 1, Len(u)))

DenotesBranch(b, t) ==
    IF b = <<>> THEN t = <<>>
    ELSE LET k == atom_end(b)
             atom == SubSeq(b, 1, k)
             quantifier == IF k < Len(b) /\ b[k + 1] \in Quantifiers
                           THEN b[k + 1] ELSE ""
             rest == SubSeq(b, IF quantifier = "" THEN k + 1 ELSE k + 2, Len(b))
         IN  \E n \in 0..Len(t) :
                /\ LET u == SubSeq(t, 1, n)
                   IN  IF quantifier = "" THEN DenotesAtom(atom, u)
                       ELSE IF quantifier = "*" THEN DenotesRepeated(atom, u)
                       ELSE \E m \in 0..n :
                               /\ DenotesAtom(atom, SubSeq(u, 1, m))
                               /\ DenotesRepeated(atom, SubSeq(u, m + 1, n))
                /\ DenotesBranch(rest, SubSeq(t, n + 1, Len(t)))

MatcherAnswered == ~IsNone(matched)

\* C29: matches is true for every target when the pattern is "" or "*"; for
\* a pattern that compiles it is true exactly when the whole target is a word
\* of the pattern, ignoring case; for a pattern that does not compile it is
\* true exactly when target and pattern are equal ignoring case.
C29_MatchesByPatternKind ==
    MatcherAnswered =>
        (matched.value <=>
            IF matcher_pattern = <<>> \/ matcher_pattern = <<"*">> THEN TRUE
            ELSE IF re_compiles(matcher_pattern)
            THEN Denotes(matcher_pattern, matcher_target)
            ELSE lower_text(matcher_target) = lower_text(matcher_pattern))

C29_Witness ==
    /\ MatcherAnswered
    /\ matcher_pattern = <<"Notebook", ".", "+">>
    /\ matcher_target = <<"Notebook">>
    /\ ~matched.value

(***************************************************************************)
(* Properties of the event handlers (SpecEvents)                           *)
(***************************************************************************)
\* the executor was called with the command c in this dispatch
Ran(c) == \E k \in DOMAIN executed : executed[k].command = <<c>>

\* an entry that holds the command c is among those of this dispatch
Selected(c) ==
    \E g \in DOMAIN matching_groups :
        \E h \in DOMAIN matching_groups[g].hooks :
            matching_groups[g].hooks[h] = Cmd(c)

DispatchOver == pc \in {"returned", "raised"}

HostEmitted(ev) == ~IsNone(emitted) /\ emitted.event = ev

\* C21: at a session start the trigger of the payload, "startup" when the
\* payload has none, is what the matchers are tested against: the handler
\* under the matcher "resume" is selected, and has been called when the
\* dispatch is over, if and only if the trigger is "resume".
C21_SessionStartMatchesTrigger ==
    HostEmitted("session:start") =>
        LET trigger == IF "trigger" \in DOMAIN payload
                       THEN payload["trigger"] ELSE "startup"
        IN  /\ Selected("resume.sh") <=> trigger = "resume"
            /\ Ran("resume.sh") => trigger = "resume"
            /\ DispatchOver /\ trigger = "resume" => Ran("resume.sh")

C21_Witness ==
    /\ HostEmitted("session:start")
    /\ "trigger" \in DOMAIN payload
    /\ payload["trigger"] = "resume"
    /\ pc = "returned"
    /\ Ran("resume.sh")

\* C22: a session resume is dispatched as a SessionStart whose trigger is
\* "resume" whatever trigger the payload names; the other keys are those of
\* the payload, and the mapping the caller passed is as the caller made it.
C22_ResumeDispatchedAsSessionStart ==
    HostEmitted("session:resume") =>
        /\ CLAUDE_EVENT_MAP[amplifier_event] = "SessionStart"
        /\ DOMAIN data = DOMAIN payload \cup {"trigger"}
        /\ data["trigger"] = "resume"
        /\ \A key \in DOMAIN payload \ {"trigger"} : data[key] = payload[key]
        /\ payload = emitted.data
        /\ Selected("resume.sh")
        /\ DispatchOver => Ran("resume.sh")

C22_Witness ==
    /\ HostEmitted("session:resume")
    /\ "trigger" \in DOMAIN payload
    /\ payload["trigger"] = "startup"
    /\ pc = "returned"
    /\ Ran("resume.sh")

\* the tool name of a payload: under tool_name, else under name, else ""
ToolName(d) ==
    IF "tool_name" \in DOMAIN d THEN d["tool_name"]
    ELSE IF "name" \in DOMAIN d THEN d["name"]
    ELSE ""

\* C23: at an event other than a session start the matchers are tested
\* against the tool name of the payload, found under tool_name or else under
\* name: the handler under the matcher "Bash" is selected, and has been
\* called when the dispatch is over, if and only if that name is Bash in
\* either case; without a name the target is the empty text, which only the
\* match-all matcher accepts.
C23_ToolEventsMatchToolName ==
    HostEmitted("tool:pre") =>
        LET is_bash == ToolName(payload) \in {"Bash", "bash"}
        IN  /\ Selected("bash.sh") <=> is_bash
            /\ Ran("bash.sh") => is_bash
            /\ DispatchOver /\ is_bash => Ran("bash.sh")
            /\ Selected("edit.sh") <=> ToolName(payload) = "Edit"
            /\ Selected("all.sh")

C23_Witness ==
    /\ HostEmitted("tool:pre")
    /\ "tool_name" \notin DOMAIN payload
    /\ "name" \in DOMAIN payload
    /\ pc = "returned"
    /\ Ran("bash.sh")

\* the names a matcher of EventsBase accepts, in lower case
Accepted(pattern) ==
    CASE pattern = "Edit|Write" -> {"edit", "write"}
      [] pattern = "Bash" -> {"bash"}
      [] pattern = "Edit" -> {"edit"}
      [] OTHER -> {pattern}

\* the target of the dispatch: the trigger at a session start, the tool name
\* otherwise
Target ==
    IF CLAUDE_EVENT_MAP[amplifier_event] = "SessionStart"
    THEN IF "trigger" \in DOMAIN data THEN data["trigger"] ELSE "startup"
    ELSE ToolName(data)

\* the places, in the event's declared list, of the entries that have a
\* handler and whose matcher accepts the target
Places ==
    LET declared == EventsBase[CLAUDE_EVENT_MAP[amplifier_event]]
        name == CASE Target = "Bash" -> "bash"
                  [] Target = "Edit" -> "edit"
                  [] OTHER -> Target
    IN  { i \in DOMAIN declared :
            /\ declared[i].hooks # <<>>
            /\ \/ declared[i].matcher = "*"
               \/ name \in Accepted(declared[i].matcher) }

ExecutorKept ==
    /\ ~IsNone(executor) =>
            /\ ~IsNone(executor')
            /\ executor'.session_id = executor.session_id
            /\ ~IsNone(executor._env_file) => executor'._env_file = executor._env_file
    /\ IsNone(executor) /\ ~IsNone(executor') =>
            /\ pc' = "loop"
            /\ executor'.session_id =
                    (IF "session_id" \in DOMAIN data'
                     THEN data'["session_id"] ELSE "unknown")

\* C30: a bridge makes at most one executor, at the first dispatch that has
\* handlers to run, and every later dispatch uses it: its session id and its
\* file never change, one temporary file is made at most, and every handler
\* is given that executor's session id, whatever session id the dispatch
\* carries.
C30_OneExecutorPerBridge ==
    /\ [][ExecutorKept]_vars
    /\ [](ntemp <= 1)
    /\ [](executed # <<>> =>
            /\ ~IsNone(executor)
            /\ prepared.env[<<"AMPLIFIER_SESSION_ID">>] = <<executor.session_id>>
            /\ prepared.env[<<"AMPLIFIER_ENV_FILE">>] = executor._env_file.path)

C30_Witness ==
    /\ ndispatch = 2
    /\ "session_id" \in DOMAIN data
    /\ data["session_id"] = "sess-2"
    /\ executed # <<>>
    /\ executor.session_id = "sess-1"
    /\ prepared.env[<<"AMPLIFIER_SESSION_ID">>] = <<"sess-1">>

(***************************************************************************)
(* Properties of a disabled bridge and of unmapped events (Spec)           *)
(***************************************************************************)
\* C24: a dispatch on a disabled bridge, or of an event outside the event
\* map, returns continue at once, whatever handlers are configured or
\* registered by skills: no handler is called, nothing is given to the
\* executor, and no executor is made (a disabled bridge never has one).
C24_DisabledOrUnmappedContinues ==
    /\ ~enabled => IsNone(executor) /\ ntemp = 0
    /\ ~IsNone(emitted) /\ (~enabled \/ emitted.event \notin DOMAIN CLAUDE_EVENT_MAP) =>
            /\ pc = "returned"
            /\ result = CONTINUE
            /\ invoked = <<>>
            /\ executed = <<>>
            /\ tasks = <<>>
            /\ ndispatch = 1 => IsNone(executor)

C24_Witness ==
    /\ enabled
    /\ ~IsNone(emitted)
    /\ emitted.event \notin DOMAIN CLAUDE_EVENT_MAP
    /\ matcher_groups # <<>>
    /\ skill_matcher_groups # <<>>
    /\ pc = "returned"
    /\ result = CONTINUE

(***************************************************************************)
(* Properties of the prompt hooks (SpecPrompt)                             *)
(***************************************************************************)
\* the prompt hook of PromptBase and the command hook after it
PromptPos == <<1, 1>>
AfterPos == <<1, 2>>

Called(pos) == \E k \in DOMAIN invoked : invoked[k] = pos

\* C25: a prompt handler whose evaluation is ok gives continue, with the
\* reason as user message when there is one, and the dispatch goes on to the
\* next handler of the entry; one whose evaluation is not ok gives deny with
\* the reason of the evaluation, and the dispatch returns that decision
\* without calling the next handler.
C25_PromptDecision ==
    PromptPos \in DOMAIN outcomes =>
        LET o == outcomes[PromptPos]
        IN  IF o.ret.ok
            THEN /\ o.res.action = "continue"
                 /\ IF o.ret.reason = JStr(<<>>)
                    THEN o.res = [action |-> "continue"]
                    ELSE o.res = [action |-> "continue",
                                  user_message |-> o.ret.reason]
                 /\ Called(AfterPos) \/ (pc = "loop" /\ gi = 1 /\ hi = 2)
            ELSE /\ o.res = [action |-> "deny", reason |-> o.ret.reason]
                 /\ pc = "returned"
                 /\ result = o.res
                 /\ ~Called(AfterPos)
                 /\ executed = <<>>

C25_Witness ==
    /\ PromptPos \in DOMAIN outcomes
    /\ ~outcomes[PromptPos].ret.ok
    /\ pc = "returned"
    /\ result = [action |-> "deny", reason |-> JStr(<<"unsafe">>)]

\* a reply that holds no JSON object and none of the phrases
Unparseable(reply) ==
    /\ reply.content = "text"
    /\ IsNone(reply.json)
    /\ ~reply.negative
    /\ ~reply.starts_no
    /\ ~reply.positive

\* the evaluation found no answer: no coordinator, no providers or no access
\* to them, a provider that raised, an empty reply, an unparseable reply
FailOpenCase(o) ==
    \/ coordinator = "None"
    \/ o.how \in {"no_coordinator", "provider_access_failed", "no_providers",
                  "provider_error", "empty_reply"}
    \/ o.how = "reply" /\ Unparseable(response_text)

OkFieldParsed ==
    /\ ~IsNone(parsed)
    /\ ~IsNone(response_text.json)
    /\ "ok" \in DOMAIN response_text.json

\* the strings of OkValues that spell "true", "yes", "1" or "ok", in lower
\* case or not
TrueWords == {"true", "yes", "1", "ok", "YES", "True", "OK"}

SkippedPos == { <<2, 1>>, <<2, 2>>, <<2, 3>> }
LastPos == <<2, 4>>

\* C31: a hook of an unknown type, a command hook without a command and a
\* prompt hook without a prompt are skipped: each is done at once with
\* continue, nothing is returned by an executor or a provider for it, the
\* executor is not called with it, and the hooks after it in the entry are
\* called.
C31_SkippedHooksContinue ==
    /\ \A pos \in SkippedPos \cap DOMAIN outcomes :
            /\ outcomes[pos].how = "skipped"
            /\ outcomes[pos].res = CONTINUE
            /\ IsNone(outcomes[pos].ret)
    /\ \A pos \in SkippedPos : Called(pos) => pos \in DOMAIN outcomes
    /\ \A k \in DOMAIN executed : executed[k].pos \notin SkippedPos
    /\ pc = "await" => <<gi, hi>> \notin SkippedPos
    /\ Called(<<2, 1>>) /\ pc \in {"returned", "raised", "await"} =>
            /\ \A pos \in SkippedPos : Called(pos)
            /\ Called(LastPos)
            /\ Ran("last.sh")

C31_Witness ==
    /\ SkippedPos \subseteq DOMAIN outcomes
    /\ pc = "returned"
    /\ result = CONTINUE
    /\ Ran("last.sh")

(***************************************************************************)
(* Properties of dispatches over command hooks (SpecTimeouts)              *)
(***************************************************************************)
DispatchRunning == pc \in {"loop", "await", "gather"}

\* the timeout of the hook at pos: the configured one, 30 otherwise
TimeoutAt(pos) ==
    LET hook_config == matching_groups[pos[1]]["hooks"][pos[2]]
    IN  IF "timeout" \in DOMAIN hook_config THEN hook_config["timeout"] ELSE 30

\* C32: a dispatch over command hooks returns a decision in the end, even
\* when no process exits by itself: every call of a hook ends at its own
\* timeout (the configured one, 30 seconds otherwise) whatever its siblings
\* do, and after a timeout the later hooks of the entry, the siblings and
\* the later entries are still called.
C32_EveryDispatchReturns ==
    /\ DispatchRunning ~> pc = "returned"
    /\ [](pc # "raised")
    /\ [](\A pos \in DOMAIN outcomes :
            outcomes[pos].how = "timeout" =>
                /\ outcomes[pos].ret = TimeoutReturn(TimeoutAt(pos))
                /\ outcomes[pos].res = CONTINUE)
    /\ [](pc = "returned" =>
            /\ invoked = << <<1, 1>>, <<1, 2>>, <<2, 1>>, <<2, 2>> >>
            /\ result = CONTINUE)

(***************************************************************************)
(* Properties of failing hooks (Spec)                                      *)
(***************************************************************************)
\* C33: a dispatch never raises and what it returns is a decision; a hook of
\* a sequential entry that fails counts as continue, as in a parallel entry,
\* and the hooks after it in the entry are still called.
C33_DispatchNeverRaises ==
    /\ pc # "raised"
    /\ pc = "returned" => ~IsException(result)
    /\ \A pos \in DOMAIN outcomes :
            /\ IsException(outcomes[pos].res)
            /\ pos[2] < Len(matching_groups[pos[1]]["hooks"])
            /\ pc \in {"returned", "raised"}
            => Called(<<pos[1], pos[2] + 1>>)

(***************************************************************************)
(* Properties of the wire payload (SpecEvents)                             *)
(***************************************************************************)
\* C35: at a tool event the tool name of the wire payload given to the
\* command hooks is the match target their entries were selected by, under
\* whichever of the keys tool_name and name the host payload carries it.
C35_WireToolNameIsMatchTarget ==
    HostEmitted("tool:pre") /\ executed # <<>> =>
        claude_data["tool_name"] = ToolName(payload)

(***************************************************************************)
(* Properties of the parallel entries (Spec)                               *)
(***************************************************************************)
\* the dispatch returned from the inspection of a parallel entry
ReturnedFromParallel ==
    /\ pc = "returned"
    /\ gi \in DOMAIN matching_groups
    /\ Parallel(matching_groups[gi])
    /\ tasks # <<>>

\* the hooks of the entry whose result is a blocking decision
BlockingTasks ==
    { i \in DOMAIN tasks :
        /\ ~IsException(tasks[i].res)
        /\ "action" \in DOMAIN tasks[i].res
        /\ tasks[i].res["action"] \in {"deny", "modify", "inject_context"} }

\* C34: what a dispatch returns from a parallel entry is the decision of the
\* blocking hook that stands first in the entry's list, in whatever order
\* the hooks finished.
C34_LowestPositionWins ==
    ReturnedFromParallel =>
        /\ BlockingTasks # {}
        /\ \E i \in BlockingTasks :
                /\ \A j \in BlockingTasks : i <= j
                /\ result = tasks[i].res

C34_Witness ==
    /\ ReturnedFromParallel
    /\ {1, 2} \subseteq BlockingTasks
    /\ tasks[1].res # tasks[2].res
    /\ result = tasks[1].res

(***************************************************************************)
(* Properties of the continue result (SpecPrompt)                          *)
(***************************************************************************)
HasUserMessage(pos) ==
    /\ pos \in DOMAIN outcomes
    /\ ~IsException(outcomes[pos].res)
    /\ "user_message" \in DOMAIN outcomes[pos].res

\* C36: a dispatch that returns continue returns the bare decision, action
\* continue and nothing else: the user message of a hook that did not block
\* (the systemMessage of an approving command hook, the reason of a prompt
\* hook that is ok) is not in what the dispatch returns.
C36_ContinueIsBare ==
    pc = "returned" /\ get(result, "action", "continue") = "continue" =>
        /\ DOMAIN result = {"action"}
        /\ result["action"] = "continue"

C36_Witness ==
    /\ pc = "returned"
    /\ result = [action |-> "continue"]
    /\ HasUserMessage(PromptPos)
    /\ outcomes[PromptPos].how = "reply"
    /\ HasUserMessage(AfterPos)


(***************************************************************************)
(* A dispatch and the notifications handled while it waits (SpecSkills)    *)
(***************************************************************************)
\* the step in which _execute_hooks collects the candidate entries
Collects == ndispatch' = ndispatch + 1

\* a dispatch waits for its first handler, and the owner whose entry it
\* collected has been unloaded in the meantime
UnloadedInFlight(owner) ==
    /\ pc = "await"
    /\ Unloads(skill_event, owner)
    /\ owner \notin DictKeys(skill_matcher_groups)
    /\ \E g \in DOMAIN sources : sources[g] = owner

\* every matching entry of the rows table[i], table[i+1], ..., row after row
RECURSIVE RowEntries(_, _, _, _)
RowEntries(table, claude_event, target, i) ==
    IF i > Len(table) THEN <<>>
    ELSE MatchingEntries(table[i].v, claude_event, target)
         \o RowEntries(table, claude_event, target, i + 1)

RECURSIVE RowNames(_, _, _, _)
RowNames(table, claude_event, target, i) ==
    IF i > Len(table) THEN <<>>
    ELSE [j \in DOMAIN MatchingEntries(table[i].v, claude_event, target) |->
            table[i].k]
         \o RowNames(table, claude_event, target, i + 1)

ExecutionsOf(g) == {k \in DOMAIN executed : executed[k].pos[1] = g}

\* the variables the store holds now and did not hold, or held with another
\* value, when the environment was prepared last
PersistedSincePrepared ==
    {key \in DOMAIN executor._persisted_env :
        \/ key \notin DOMAIN prepared.executor._persisted_env
        \/ prepared.executor._persisted_env[key] # executor._persisted_env[key]}

\* the file of the executor exists
HasFile == ~IsNone(executor) /\ ~IsNone(executor._env_file)
           /\ executor._env_file.path \in DOMAIN files

\* C38: the handlers of a parallel entry get the same environment, the one
\* computed from the store as it was when the entry was launched: while the
\* entry is gathered, a variable a sibling has persisted since is in the
\* environment of no handler of the entry.  Whenever the dispatch is about
\* to call the handlers of an entry, the store holds every variable the file
\* defines, and the environment of every handler then called holds every
\* pair of the store.
C38_SiblingsShareLaunchEnvironment ==
    /\ [](\A g \in Entries : Parallel(matching_groups[g]) =>
             \A k1, k2 \in ExecutionsOf(g) : executed[k1].env = executed[k2].env)
    /\ [](pc = "gather" =>
             \A k \in ExecutionsOf(gi) :
                /\ executed[k].env = _prepare_environment(prepared.executor, environ)
                /\ \A key \in PersistedSincePrepared :
                      \/ key \notin DOMAIN executed[k].env
                      \/ executed[k].env[key] # executor._persisted_env[key])
    /\ []((pc = "loop" /\ HasFile) =>
             Holds(executor._persisted_env, DefinedBy(TheFile)))
    /\ [][\A k \in DOMAIN executed' :
             k \notin DOMAIN executed =>
                Holds(executed'[k].env, executor._persisted_env)]_vars

\* a hook of the parallel entry persisted FOO: neither a.sh nor b.sh had it
\* in its environment, c.sh of the next entry has it
C38_Witness ==
    /\ pc = "await"
    /\ gi = 2
    /\ <<"FOO">> \notin DOMAIN EnvOf(<<1, 1>>)
    /\ <<"FOO">> \notin DOMAIN EnvOf(<<1, 2>>)
    /\ <<"FOO">> \in DOMAIN EnvOf(<<2, 1>>)
    /\ EnvOf(<<2, 1>>)[<<"FOO">>] = <<"a">>

(***************************************************************************)
(* The store over the life of the executor (SpecExecutor)                  *)
(***************************************************************************)
\* execute is called while the executor has no file
ExecuteWithoutFile == nexec' = nexec + 1 /\ IsNone(executor._env_file)

\* C39: no step removes a key from the store; an execute that finds the
\* executor without a file makes a new one, and every environment execute
\* prepares, and so every process it spawns, holds every pair of the store.
C39_StoreNeverShrinks ==
    /\ [][DOMAIN executor._persisted_env
             \subseteq DOMAIN executor'._persisted_env]_vars
    /\ [][ExecuteWithoutFile =>
             /\ ~IsNone(executor'._env_file)
             /\ executor'._env_file.path \notin DOMAIN files
             /\ executor'._env_file.path \in DOMAIN files'
             /\ files'[executor'._env_file.path] = <<>>
             /\ ntemp' = ntemp + 1]_vars
    /\ [][nexec' = nexec + 1 =>
             /\ Holds(prepared'.env, executor._persisted_env)
             /\ Len(calls') > Len(calls) =>
                   Holds(calls'[Len(calls')].env, executor._persisted_env)]_vars

\* FOO was persisted, cleanup removed the file, the next execute made a
\* second file and gave FOO to its process, and at its end reloaded the new
\* file, which does not define FOO: the store still holds it
C39_Witness ==
    /\ ntemp = 2
    /\ calls = <<>>
    /\ ~IsNone(last_op)
    /\ last_op.op = "execute"
    /\ last_op.outcome = "exit"
    /\ ~IsNone(last_op.returned)
    /\ last_op.returned.content = <<>>
    /\ prepared.executor._env_file.path = mkstemp("sess-1", 2)
    /\ <<"FOO">> \in DOMAIN prepared.env
    /\ prepared.env[<<"FOO">>] = <<"bar">>
    /\ <<"FOO">> \in DOMAIN executor._persisted_env
    /\ executor._persisted_env[<<"FOO">>] = <<"bar">>

(***************************************************************************)
(* The two skill tables after a notification (SpecSkillTables)             *)
(***************************************************************************)
\* the matcher groups an owner has in the table
GroupsOf(owner) ==
    (CHOOSE e \in {skill_matcher_groups[i] : i \in DOMAIN skill_matcher_groups} :
        e.k = owner).v

\* the table has one row for each of its owners
OneRowEach(table) == Cardinality(DictKeys(table)) = Len(table)

\* C40 (as claimed): after a notification was handled, whether the handler
\* returned or raised, both tables hold the same owners, one row for each,
\* and the matcher groups of every owner are those of the configuration
\* stored for it, the one its most recent skill:loaded carried.
C40_TablesHoldTheSameOwners ==
    ~IsNone(skill_event) =>
        /\ DictKeys(skill_scoped_hooks) = DictKeys(skill_matcher_groups)
        /\ OneRowEach(skill_scoped_hooks)
        /\ OneRowEach(skill_matcher_groups)
        /\ \A owner \in DictKeys(skill_scoped_hooks)
                           \cap DictKeys(skill_matcher_groups) :
              GroupsOf(owner) = MatcherGroups(Declared(owner))
====
